---- MODULE Spec2Model ----
(***************************************************************************)
(* SSTV codec (milesburton/sstv-webapp): the encoder that turns a raster   *)
(* into a train of tones (SSTVEncoder) and the decoder that recovers the   *)
(* raster from a sample stream (SSTVDecoder).                              *)
(*                                                                         *)
(* Representation.  A sample stream is kept run-length encoded: a sequence *)
(* of segments [f, s, e], the samples s..e-1 all belonging to one tone of  *)
(* frequency f.  Frequencies are integers in units of 1/255 Hz, which      *)
(* makes the pixel mapping 1500 + (v/255)*800 exact.  Durations are        *)
(* rationals <<num, den>> in microseconds.  The Goertzel magnitude is      *)
(* idealised: a window answers to a probe frequency in proportion to the   *)
(* samples of the window whose tone lies within 100 Hz of the probe.       *)
(***************************************************************************)
EXTENDS Integers, Sequences, FiniteSets, TLC

VARIABLES
    encPc,          \* encoder: "none", "ready", "image", "done", "error"
    encModeKey,     \* the key handed to the constructor
    encMode,        \* this.mode: a key of SSTV_MODES or "undefined"
    encSampleRate,  \* this.sampleRate
    encY,           \* addImageData's line counter y
    phase,          \* this.phase, in units of 1/(255 * sampleRate) of a cycle
    streams,        \* generateAudio calls made on this encoder so far
    tones,          \* every addTone call so far: [f, dn, dd]
    samples,        \* the encoder's output stream (segments)
    pixels,         \* the raster handed to generateAudio
    decPc,          \* decoder: position in decodeAudio / decodeImage
    sampleRate,     \* decoder this.sampleRate
    mode,           \* decoder this.mode: "null" or a key of SSTV_MODES
    input,          \* the sample stream being decoded (segments)
    scanI,          \* loop index of detectMode / findSyncPulse
    visHit,         \* detectMode: TRUE when a scanned position matched a VIS code
    searchK,        \* decodeImage: index into searchPositions
    position,       \* decodeImage: the cursor
    y,              \* decodeImage: the line counter
    imageData,      \* the raster: pixel index -> <<R, G, B, A>>
    chromaU,        \* scratch Cb, pixel index -> value
    chromaV,        \* scratch Cr, pixel index -> value
    written,        \* pixel indexes some scan has written
    linesDecoded,   \* how many line iterations have run
    lastSync,       \* how the last sync search ended: "none", "initial", "window",
                    \* "expanded", "expected" (cursor moved), "kept" (cursor left)
    mapPc,          \* frequency mapping: "idle", "tone", "estimated", "decoded"
    mapTone,        \* the frequency of the tone under analysis, in 1/255 Hz
    mapWindow,      \* the length of the analysis window, in samples
    mapFreq,        \* the frequency detectFrequencyRange answers, in Hz
    mapValue,       \* the channel value decodeScanLine derives from it
    wavSamples,     \* createWAV's argument when called on its own: amplitudes in 1/1000
    wav,            \* the bytes of the blob createWAV returned last, << >> before
    currentChromaType,  \* decoder this.currentChromaType: "undefined", "U" or "V"
    firstRaster,    \* the raster an earlier decode on this decoder delivered, << >> if none
    fmPc,           \* FMDemodulator: "idle", "loop" (inside demodulateAll), "returned"
    fmRate,         \* FMDemodulator this.sampleRate
    fmInput,        \* per input sample, the angle filtered.arg() takes, in 1/PhaseSteps of pi
    fmI,            \* demodulateAll's loop index i
    prevPhase,      \* FMDemodulator this.prevPhase, in 1/PhaseSteps of pi
    fmDelta,        \* the phase difference the last output was scaled from
    fmOutput,       \* demodulateAll's output so far, each value in 1/fmDen(fmRate)
    alPc,           \* one scan on both sides: "idle", "encode", "decode", "done"
    alMode,         \* the mode key of the scan
    alKind,         \* which scan of the line: "G", "B", "R", or "Y", "C"
    alWidth,        \* the width of the raster
    alRate,         \* the sample rate of encoder and decoder
    alX,            \* the encoder's pixel loop index, counted in tones
    alEmitted,      \* samples the encoder has pushed for the scan so far
    alAdvance,      \* samples the decoder cursor moved over the scan
    srPc,           \* a scan loop on its own: "idle", "detectMode", "findSyncPulse", "returned"
    srRate,         \* this.sampleRate of the decoder
    srMode,         \* this.mode of the decoder (findSyncPulse reads its syncPulse)
    srStream,       \* the samples scanned
    srI,            \* the loop index i
    srIter,         \* how many iterations of the loop have run
    appPanel,       \* the panel of the App under view: "idle", "encode" or "decode"
    appProcessing,  \* encodeProcessing / decodeProcessing
    appResult,      \* encodeResult / decodeResult: 0 for null, else the file it came from
    appError,       \* encodeError / decodeError: 0 for null, else the file it came from
    appDragActive,  \* encodeDragActive / decodeDragActive
    appRunning,     \* the files whose handleEncodeFile / handleDecodeFile awaits its promise
    appSubmitted    \* how many files have been handed to the panel; files are numbered

encVars == <<encPc, encModeKey, encMode, encSampleRate, encY, phase, streams, tones, samples,
             pixels>>
decVars == <<decPc, sampleRate, mode, input, scanI, visHit, searchK, position, y,
             imageData, chromaU, chromaV, written, linesDecoded, lastSync>>
mapVars == <<mapPc, mapTone, mapWindow, mapFreq, mapValue>>
wavVars == <<wavSamples, wav>>
reuseVars == <<currentChromaType, firstRaster>>
fmVars == <<fmPc, fmRate, fmInput, fmI, prevPhase, fmDelta, fmOutput>>
alignVars == <<alPc, alMode, alKind, alWidth, alRate, alX, alEmitted, alAdvance>>
strideVars == <<srPc, srRate, srMode, srStream, srI, srIter>>
appVars == <<appPanel, appProcessing, appResult, appError, appDragActive, appRunning,
             appSubmitted>>
extraVars == <<alignVars, strideVars, appVars>>
otherVars == <<mapVars, wavVars, reuseVars, fmVars, extraVars>>
vars == <<encVars, decVars, otherVars>>

---------------------------------------------------------------------------
(* Bounds of the model.                                                    *)

\* The raster is W x H instead of 320 x 240 (256): the timings stay those of
\* the mode table.
\* SSTV_MODES[*].width of the program; the rasters that are decoded pixel by
\* pixel are W wide.
fullWidth == 320

W == 2
H == 3

---------------------------------------------------------------------------
(* Mode table and frequency constants.                                     *)

FREQ_SYNC == 1200
FREQ_BLACK == 1500
FREQ_WHITE == 2300
FREQ_VIS_BIT1 == 1100
FREQ_VIS_BIT0 == 1300
FREQ_VIS_START == 1900
FREQ_VIS_STOP == 1200

\* Durations in microseconds; separatorPulse 0 stands for the absent field.
SSTV_MODES ==
    [ROBOT36 |-> [name |-> "Robot 36", visCode |-> 8, scanTime |-> 150000,
                  lines |-> H, width |-> W, syncPulse |-> 9000, syncPorch |-> 3000,
                  separatorPulse |-> 0, colorFormat |-> "YUV"],
     MARTIN1 |-> [name |-> "Martin M1", visCode |-> 44, scanTime |-> 146000,
                  lines |-> H, width |-> W, syncPulse |-> 4862, syncPorch |-> 572,
                  separatorPulse |-> 572, colorFormat |-> "RGB"],
     SCOTTIE1 |-> [name |-> "Scottie S1", visCode |-> 60, scanTime |-> 138000,
                  lines |-> H, width |-> W, syncPulse |-> 9000, syncPorch |-> 1500,
                  separatorPulse |-> 1500, colorFormat |-> "RGB"]]

ModeKeys == DOMAIN SSTV_MODES

\* SSTV_MODES[key] of the source: undefined for a key the table lacks.
ModeLookup(key) == IF key \in ModeKeys THEN key ELSE "undefined"

\* A frequency in Hz, in the model's unit of 1/255 Hz.
Hz(f) == f * 255

Max(a, b) == IF a > b THEN a ELSE b
Min(a, b) == IF a < b THEN a ELSE b

---------------------------------------------------------------------------
(* Arithmetic of the source: Math.floor(duration * sampleRate).            *)

\* The products that IEEE-754 doubles compute just below their exact integer
\* value at 48 kHz (0.009 * 48000 = 431.99999999999994, 0.0045 * 48000 =
\* 215.99999999999997, (0.009 + 0.0015) * 48000 = 503.99999999999994, and the
\* thirds of the 9 ms sync pulse), so that Math.floor loses one sample.
IeeeShort(dn, dd, fs) ==
    /\ fs = 48000
    /\ <<dn, dd>> \in {<<9000, 1>>, <<4500, 1>>, <<10500, 1>>, <<9000, 3>>, <<18000, 3>>}

\* Math.floor((dn / dd microseconds) * fs); fs is a multiple of 100 Hz.
floorMul(dn, dd, fs) ==
    ((dn * (fs \div 100)) \div (dd * 10000)) - (IF IeeeShort(dn, dd, fs) THEN 1 ELSE 0)

---------------------------------------------------------------------------
(* Sample streams.                                                         *)

StreamLen(smp) == IF Len(smp) = 0 THEN 0 ELSE smp[Len(smp)][3]

addToneRoundedUp(smp, f, dn, dd, fs) ==
    LET n == floorMul(dn, dd, fs) + 1
        s == StreamLen(smp)
    IN  IF n > 0 THEN Append(smp, <<f, s, s + n>>) ELSE smp

\* addTone: numSamples samples of one frequency are pushed; nothing is pushed
\* when numSamples <= 0.
addTone(smp, f, dn, dd, fs) ==
    LET n == floorMul(dn, dd, fs)
        s == StreamLen(smp)
    IN  IF n > 0 THEN Append(smp, <<f, s, s + n>>) ELSE smp

\* A run of addTone calls, in order.
RECURSIVE addTones(_, _, _)
addTones(smp, ts, fs) ==
    IF ts = <<>> THEN smp
    ELSE addTones(addTone(smp, ts[1].f, ts[1].dn, ts[1].dd, fs), Tail(ts), fs)

Tone(f, dn, dd) == [f |-> f, dn |-> dn, dd |-> dd]

\* this.phase is held as a whole number of 1/(255 * sampleRate) cycles, the
\* step by which one sample of a tone of f/255 Hz advances it by f; 2 * pi is
\* phaseModulus(fs).
phaseModulus(fs) == 255 * fs

\* (f * n) % md, the product split at 100 samples to stay within the integers
\* of the checker.
mulMod(f, n, md) == (((f * 100) % md) * (n \div 100) + f * (n % 100)) % md

\* addTone's effect on this.phase: phaseIncrement is added once per sample
\* pushed, then this.phase %= 2 * Math.PI.  No sample is pushed when
\* numSamples <= 0.
phaseAfterTone(ph, f, dn, dd, fs) ==
    LET n == floorMul(dn, dd, fs)
    IN  IF n > 0 /\ fs > 0 THEN (ph + mulMod(f, n, phaseModulus(fs))) % phaseModulus(fs) ELSE ph

\* this.phase after a run of addTone calls.
RECURSIVE phaseAfter(_, _, _)
phaseAfter(ph, ts, fs) ==
    IF ts = <<>> THEN ph
    ELSE phaseAfter(phaseAfterTone(ph, ts[1].f, ts[1].dn, ts[1].dd, fs), Tail(ts), fs)

---------------------------------------------------------------------------
(* SSTVEncoder.                                                            *)

visBitMsbFirst(visCode, i) == (visCode \div (2 ^ (6 - i))) % 2

\* (visCode >> i) & 1
visBit(visCode, i) == (visCode \div (2 ^ i)) % 2

RECURSIVE visParityUpTo(_, _)
visParityUpTo(visCode, n) ==
    IF n = 0 THEN 0 ELSE (visParityUpTo(visCode, n - 1) + visBit(visCode, n - 1)) % 2

visParityOdd(visCode) == 1 - visParityUpTo(visCode, 7)

\* parity ^= bit over the 7 data bits
visParity(visCode) == visParityUpTo(visCode, 7)

visBitFreq(bit) == IF bit = 1 THEN Hz(FREQ_VIS_BIT1) ELSE Hz(FREQ_VIS_BIT0)

\* The addTone calls addVISCode makes before it reads this.mode.
visLeaderTones ==
    << Tone(Hz(1900), 300000, 1), Tone(Hz(1200), 10000, 1),
       Tone(Hz(FREQ_VIS_START), 30000, 1) >>

\* The addTone calls of addVISCode for a VIS code, in order.
visTones(visCode) ==
    visLeaderTones
    \o [i \in 1..7 |-> Tone(visBitFreq(visBit(visCode, i - 1)), 30000, 1)]
    \o << Tone(visBitFreq(visParity(visCode)), 30000, 1),
          Tone(Hz(FREQ_VIS_STOP), 30000, 1) >>

addVISCode(m) == visTones(SSTV_MODES[m].visCode)

\* FREQ_BLACK + (value / 255) * (FREQ_WHITE - FREQ_BLACK), in 1/255 Hz
pixelFreq(value) == Hz(FREQ_BLACK) + value * (FREQ_WHITE - FREQ_BLACK)

\* addScanLine: one tone per pixel of line yy, channel 1 = R, 2 = G, 3 = B.
addScanLine(m, data, yy, channel) ==
    [x \in 1..SSTV_MODES[m].width |->
        Tone(pixelFreq(data[yy * SSTV_MODES[m].width + (x - 1)][channel]),
             SSTV_MODES[m].scanTime, SSTV_MODES[m].width)]

sepTones(m) ==
    IF SSTV_MODES[m].separatorPulse # 0
    THEN << Tone(Hz(FREQ_SYNC), SSTV_MODES[m].separatorPulse, 1) >>
    ELSE << >>

\* 0.299 r + 0.587 g + 0.114 b, in thousandths
lumaMilli(r, g, b) == 299 * r + 587 * g + 114 * b

\* FREQ_BLACK + (Y / 255) * 800 for the full-range Y of a pixel, in 1/255 Hz
lumaFreq(px) == Hz(FREQ_BLACK) + (4 * lumaMilli(px[1], px[2], px[3])) \div 5

\* The chroma tone of two adjacent pixels: U = 0.492 (b - Y) on a U line,
\* V = 0.877 (r - Y) on a V line, of the averaged pixel; normalised
\* ((c + 156) / 312) * 255, clamped to [0, 255] and mapped like a pixel.
chromaFreq(p1, p2, isULine) ==
    LET r2 == p1[1] + p2[1]
        g2 == p1[2] + p2[2]
        b2 == p1[3] + p2[3]
        y2 == lumaMilli(r2, g2, b2)
        c  == IF isULine THEN 492 * (1000 * b2 - y2) ELSE 877 * (1000 * r2 - y2)
        off == (((c + 312000000) \div 1000) * 17) \div 52
    IN  Hz(FREQ_BLACK) + Max(0, Min(255 * 800, off))

addScanLineYUVSwapped(m, data, yy) ==
    LET width == SSTV_MODES[m].width
        px(x) == data[yy * width + x]
        nChroma == (width + 1) \div 2
    IN  [x \in 1..width |-> Tone(lumaFreq(px(x - 1)), 88000, width)]
        \o << Tone(IF yy % 2 = 0 THEN Hz(FREQ_BLACK) ELSE Hz(FREQ_WHITE), 4500, 1),
              Tone(Hz(FREQ_BLACK), 1500, 1) >>
        \o [k \in 1..nChroma |->
              Tone(chromaFreq(px(2 * (k - 1)), px(Min(2 * (k - 1) + 1, width - 1)), yy % 2 = 1),
                   44000 * 2, width)]

\* addScanLineYUV: Y scan, separator, porch, half-resolution chroma scan.
addScanLineYUV(m, data, yy) ==
    LET width == SSTV_MODES[m].width
        px(x) == data[yy * width + x]
        isULine == yy % 2 = 0
        sepFreq == IF yy % 2 = 0 THEN Hz(FREQ_BLACK) ELSE Hz(FREQ_WHITE)
        nChroma == (width + 1) \div 2
    IN  [x \in 1..width |-> Tone(lumaFreq(px(x - 1)), 88000, width)]
        \o << Tone(sepFreq, 4500, 1), Tone(Hz(FREQ_BLACK), 1500, 1) >>
        \o [k \in 1..nChroma |->
              Tone(chromaFreq(px(2 * (k - 1)), px(Min(2 * (k - 1) + 1, width - 1)), isULine),
                   44000 * 2, width)]

addImageLineRedFirst(m, data, yy) ==
    << Tone(Hz(FREQ_SYNC), SSTV_MODES[m].syncPulse, 1),
       Tone(Hz(FREQ_BLACK), SSTV_MODES[m].syncPorch, 1) >>
    \o (IF SSTV_MODES[m].colorFormat = "RGB"
        THEN addScanLine(m, data, yy, 1) \o sepTones(m)
             \o addScanLine(m, data, yy, 2) \o sepTones(m)
             \o addScanLine(m, data, yy, 3)
        ELSE addScanLineYUV(m, data, yy))

\* One iteration of addImageData's loop: the addTone calls of line yy.
addImageLine(m, data, yy) ==
    << Tone(Hz(FREQ_SYNC), SSTV_MODES[m].syncPulse, 1),
       Tone(Hz(FREQ_BLACK), SSTV_MODES[m].syncPorch, 1) >>
    \o (IF SSTV_MODES[m].colorFormat = "RGB"
        THEN addScanLine(m, data, yy, 2) \o sepTones(m)
             \o addScanLine(m, data, yy, 3) \o sepTones(m)
             \o addScanLine(m, data, yy, 1)
        ELSE addScanLineYUV(m, data, yy))

RECURSIVE addImageData(_, _, _)
\* The addTone calls of lines 0 .. n-1.
addImageData(m, data, n) ==
    IF n = 0 THEN << >> ELSE addImageData(m, data, n - 1) \o addImageLine(m, data, n - 1)

\* The stream generateAudio builds for a raster: VIS, then every line.
generateAudio(m, data, fs) ==
    addTones(<< >>, addVISCode(m) \o addImageData(m, data, SSTV_MODES[m].lines), fs)

---------------------------------------------------------------------------
(* SSTVEncoder.createWAV.  A blob is the sequence of its bytes.            *)

\* view.setUint16(offset, x, true) and view.setUint32(offset, x, true): the
\* bytes of x modulo 2^16 and 2^32, lowest first.
setUint16(x) == << x % 256, (x \div 256) % 256 >>
setUint32(x) == << x % 256, (x \div 256) % 256, (x \div 65536) % 256, (x \div 16777216) % 256 >>

\* The char codes writeString writes for 'RIFF', 'WAVE', 'fmt ' and 'data'.
strRIFF == << 82, 73, 70, 70 >>
strWAVE == << 87, 65, 86, 69 >>
strFmt == << 102, 109, 116, 32 >>
strData == << 100, 97, 116, 97 >>

\* The 44 header bytes for n samples at sample rate fs.
wavHeader(n, fs) ==
    strRIFF \o setUint32(36 + n * 2) \o strWAVE \o strFmt \o setUint32(16) \o setUint16(1)
         \o setUint16(1) \o setUint32(fs) \o setUint32(fs * 2) \o setUint16(2)
         \o setUint16(16) \o strData \o setUint32(n * 2)

wavSampleUnclamped(a) ==
    setUint16(IF a >= 0 THEN (a * 32767) \div 1000 ELSE 0 - (((0 - a) * 32767) \div 1000))

\* view.setInt16(offset, Math.max(-1, Math.min(1, sample)) * 0x7fff, true) for
\* the sample a / 1000: the product loses its fraction (towards zero) and is
\* stored in two's complement, low byte first.
wavSample(a) ==
    LET c == Max(-1000, Min(1000, a))
    IN  setUint16(IF c >= 0 THEN (c * 32767) \div 1000 ELSE 0 - (((0 - c) * 32767) \div 1000))

RECURSIVE wavData(_)
wavData(smp) == IF smp = << >> THEN << >> ELSE wavSample(smp[1]) \o wavData(Tail(smp))

\* createWAV(samples) for a sequence of amplitudes.
createWAV(smp, fs) == wavHeader(Len(smp), fs) \o wavData(smp)


---------------------------------------------------------------------------
(* Inputs.                                                                 *)

Palette == {<<0, 0, 0>>, <<255, 255, 255>>, <<255, 0, 0>>, <<51, 102, 204>>}

\* A W x H raster, pixel index y * W + x -> <<r, g, b>>: a checkerboard of two
\* colours (a solid raster when they are equal).
Image(c1, c2) ==
    [i \in 0..(W * H - 1) |-> IF ((i % W) + (i \div W)) % 2 = 0 THEN c1 ELSE c2]

Images == {Image(c1, c2) : c1, c2 \in Palette}

\* Mode names a caller may hand to the constructor; "PD120" is not in the table.
ModeNames == ModeKeys \cup {"PD120"}

\* Sample rates a caller may hand to the constructor.
SampleRates == {48000, 0, -48000}

\* generateAudio calls on one encoder.
MaxStreams == 2

---------------------------------------------------------------------------
(* The encoder as a state machine.                                         *)

DecoderIdle ==
    /\ decPc = "idle" /\ sampleRate = 48000 /\ mode = "null" /\ input = << >>
    /\ scanI = 0 /\ visHit = FALSE /\ searchK = 0 /\ position = -1 /\ y = 0
    /\ imageData = << >> /\ chromaU = << >> /\ chromaV = << >>
    /\ written = {} /\ linesDecoded = 0 /\ lastSync = "none"

EncoderIdle ==
    /\ encPc = "none" /\ encModeKey = "ROBOT36" /\ encMode = "undefined"
    /\ encSampleRate = 48000 /\ encY = 0 /\ tones = << >> /\ samples = << >>
    /\ phase = 0 /\ streams = 0

MapIdle == mapPc = "idle" /\ mapTone = 0 /\ mapWindow = 0 /\ mapFreq = -1 /\ mapValue = -1

WavIdle == wavSamples = << >> /\ wav = << >>

\* A decoder that has not decoded anything yet.
ReuseIdle == currentChromaType = "undefined" /\ firstRaster = << >>

\* No demodulator constructed.
FmIdle ==
    /\ fmPc = "idle" /\ fmRate = 48000 /\ fmInput = << >> /\ fmI = 0
    /\ prevPhase = 0 /\ fmDelta = 0 /\ fmOutput = << >>

\* No scan under comparison.
AlignIdle ==
    /\ alPc = "idle" /\ alMode = "ROBOT36" /\ alKind = "Y" /\ alWidth = 0 /\ alRate = 48000
    /\ alX = 0 /\ alEmitted = 0 /\ alAdvance = 0

\* No scan loop running on its own.
StrideIdle ==
    /\ srPc = "idle" /\ srRate = 48000 /\ srMode = "ROBOT36" /\ srStream = << >>
    /\ srI = 0 /\ srIter = 0

\* No App mounted.
AppIdle ==
    /\ appPanel = "idle" /\ appProcessing = FALSE /\ appResult = 0 /\ appError = 0
    /\ appDragActive = FALSE /\ appRunning = {} /\ appSubmitted = 0

ExtraIdle == AlignIdle /\ StrideIdle /\ AppIdle

OthersIdle == MapIdle /\ WavIdle /\ ReuseIdle /\ FmIdle /\ ExtraIdle

InitEnc == EncoderIdle /\ pixels \in Images /\ DecoderIdle /\ OthersIdle

\* constructor(mode, sampleRate)
NewEncoder(key, fs) ==
    /\ encPc = "none"
    /\ encPc' = "ready"
    /\ encModeKey' = key
    /\ encMode' = ModeLookup(key)
    /\ encSampleRate' = fs
    /\ phase' = 0
    /\ UNCHANGED <<encY, streams, tones, samples, pixels, decVars, otherVars>>

\* encodeImage on an encoder without a mode descriptor: reading
\* this.mode.width throws a TypeError before anything is emitted.
EncodeImageThrows ==
    /\ encPc = "ready"
    /\ encMode = "undefined"
    /\ encPc' = "error"
    /\ UNCHANGED <<encModeKey, encMode, encSampleRate, encY, phase, streams, tones, samples,
                   pixels, decVars, otherVars>>

\* generateAudio up to the end of addVISCode, on a new encoder or on one that
\* has delivered a stream before: samples starts empty, this.phase is left as
\* it is.  Without a mode descriptor the three leader tones are emitted and
\* reading this.mode.visCode throws.
GenerateAudioVIS ==
    /\ encPc \in {"ready", "done"}
    /\ streams < MaxStreams
    /\ streams' = streams + 1
    /\ LET ts == IF encMode = "undefined" THEN visLeaderTones ELSE addVISCode(encMode)
       IN  /\ tones' = ts
           /\ samples' = addTones(<< >>, ts, encSampleRate)
           /\ phase' = phaseAfter(phase, ts, encSampleRate)
    /\ encPc' = IF encMode = "undefined" THEN "error" ELSE "image"
    /\ encY' = 0
    /\ UNCHANGED <<encModeKey, encMode, encSampleRate, pixels, decVars, otherVars>>

\* One iteration of addImageData's loop over y (imageData.height = mode.lines).
AddImageLine ==
    /\ encPc = "image"
    /\ encY < SSTV_MODES[encMode].lines
    /\ LET ts == addImageLine(encMode, pixels, encY)
       IN  /\ tones' = tones \o ts
           /\ samples' = addTones(samples, ts, encSampleRate)
           /\ phase' = phaseAfter(phase, ts, encSampleRate)
    /\ encY' = encY + 1
    /\ UNCHANGED <<encPc, encModeKey, encMode, encSampleRate, streams, pixels, decVars, otherVars>>

\* The loop is over: createWAV wraps the samples.  The stream is held as runs
\* of tones, so of the blob the header is kept.
CreateWAV ==
    /\ encPc = "image"
    /\ encY = SSTV_MODES[encMode].lines
    /\ encPc' = "done"
    /\ wav' = wavHeader(StreamLen(samples), encSampleRate)
    /\ UNCHANGED <<encModeKey, encMode, encSampleRate, encY, phase, streams, tones, samples,
                   pixels, decVars, mapVars, reuseVars, fmVars, extraVars, wavSamples>>

NextEnc ==
    \/ \E key \in ModeNames, fs \in SampleRates : NewEncoder(key, fs)
    \/ EncodeImageThrows
    \/ GenerateAudioVIS
    \/ AddImageLine
    \/ CreateWAV

SpecEnc == InitEnc /\ [][NextEnc]_vars

---------------------------------------------------------------------------
(* createWAV called on its own with a sequence of amplitudes.              *)

\* The longest sample sequence handed to createWAV.
MaxWavSamples == 3

\* Amplitudes in 1/1000: inside [-1, 1], at its ends, and beyond them.
WavAmplitudes == {-2000, -1000, -500, 0, 500, 1000, 1500}

WavRates == {48000, 44100}

InitWAV ==
    /\ encPc = "ready" /\ encModeKey = "ROBOT36" /\ encMode = "ROBOT36"
    /\ encSampleRate \in WavRates
    /\ encY = 0 /\ tones = << >> /\ samples = << >> /\ phase = 0 /\ streams = 0
    /\ pixels = Image(<<0, 0, 0>>, <<0, 0, 0>>)
    /\ DecoderIdle /\ MapIdle /\ ReuseIdle /\ FmIdle /\ ExtraIdle
    /\ wavSamples \in UNION {[1..n -> WavAmplitudes] : n \in 0..MaxWavSamples}
    /\ wav = << >>

\* encoder.createWAV(samples)
CreateWAVCall ==
    /\ encPc = "ready" /\ wav = << >>
    /\ wav' = createWAV(wavSamples, encSampleRate)
    /\ UNCHANGED <<encVars, decVars, mapVars, reuseVars, fmVars, extraVars, wavSamples>>

NextWAV == CreateWAVCall

SpecWAV == InitWAV /\ [][NextWAV]_vars


---------------------------------------------------------------------------
(* SSTVDecoder: frequency estimation.                                      *)

\* The segments of smp that overlap the window [a, b).
Window(smp, a, b) == SelectSeq(smp, LAMBDA seg : seg[2] < b /\ seg[3] > a)

Abs(n) == IF n < 0 THEN -n ELSE n

RECURSIVE goertzelSum(_, _, _, _)
goertzelSum(win, a, b, target) ==
    IF win = << >> THEN 0
    ELSE LET seg == win[1]
             n == Min(b, seg[3]) - Max(a, seg[2])
         IN  n * Max(0, Hz(100) - Abs(Hz(target) - seg[1]))
             + goertzelSum(Tail(win), a, b, target)

\* goertzel(samples, startIdx, endIdx, targetFreq), idealised and scaled by
\* 2 * Hz(100) * N: a full window of the probed tone answers Hz(100) * N,
\* which stands for the magnitude 0.5 of a unit sine.
goertzel(win, startIdx, endIdx, targetFreq) == goertzelSum(win, startIdx, endIdx, targetFreq)

\* A sweep for (f = from; f <= to; f += step) keeping the first strict
\* maximum; acc is <<maxMag, detectedFreq>>.  The loop is computed in closed
\* form: the lowest probed frequency of the greatest magnitude, when that
\* magnitude exceeds the one held on entry.
sweep(win, a, b, from, to, step, acc) ==
    LET probes == {from + k * step : k \in 0..((to - from) \div step)}
        mag == [f \in probes |-> goertzel(win, a, b, f)]
        best == CHOOSE f \in probes :
                    \A g \in probes : mag[f] > mag[g] \/ (mag[f] = mag[g] /\ f <= g)
    IN  IF to < from \/ mag[best] <= acc[1] THEN acc ELSE <<mag[best], best>>

\* detectFrequency's fine loop: its upper bound detectedFreq + 100 is read
\* again on every iteration.
RECURSIVE fineSweep(_, _, _, _, _)
fineSweep(win, a, b, f, acc) ==
    IF f > acc[2] + 100 THEN acc
    ELSE LET mag == goertzel(win, a, b, f)
         IN  fineSweep(win, a, b, f + 10, IF mag > acc[1] THEN <<mag, f>> ELSE acc)

\* detectFrequency(samples, startIdx, duration): Hz, 0 for a window of less
\* than 10 samples.
detectFrequency(smp, startIdx, dn, dd, fs) ==
    LET numSamples == floorMul(dn, dd, fs)
        endIdx == Min(startIdx + numSamples, StreamLen(smp))
        win == Window(smp, startIdx, endIdx)
        coarse == sweep(win, startIdx, endIdx, 1100, 2300, 100, <<0, 1500>>)
    IN  IF endIdx - startIdx < 10 THEN 0
        ELSE IF 10 * coarse[1] > Hz(100) * (endIdx - startIdx)   \* maxMag > 0.05
             THEN fineSweep(win, startIdx, endIdx, coarse[2] - 100, coarse)[2]
             ELSE coarse[2]

\* detectFrequencyRange with the window given in samples: Hz, FREQ_BLACK for
\* a window of less than 10 samples.
detectFrequencyRangeN(smp, startIdx, numSamples) ==
    LET endIdx == Min(startIdx + numSamples, StreamLen(smp))
        win == Window(smp, startIdx, endIdx)
        coarse == sweep(win, startIdx, endIdx, FREQ_SYNC - 100, FREQ_WHITE + 200, 25,
                        <<0, FREQ_BLACK>>)
        fineStart == Max(FREQ_SYNC - 100, coarse[2] - 30)
        fineEnd == Min(FREQ_WHITE + 200, coarse[2] + 30)
    IN  IF endIdx - startIdx < 10 THEN FREQ_BLACK
        ELSE sweep(win, startIdx, endIdx, fineStart, fineEnd, 1, coarse)[2]

\* detectFrequencyRange(samples, startIdx, duration)
detectFrequencyRange(smp, startIdx, dn, dd, fs) ==
    detectFrequencyRangeN(smp, startIdx, floorMul(dn, dd, fs))

---------------------------------------------------------------------------
(* SSTVDecoder: mode detection.                                            *)

\* decodeVIS's bit test: 1100 Hz = 1, 1300 Hz = 0
visBitValueInverted(freq) == IF freq < 1200 THEN 0 ELSE 1

visBitValue(freq) == IF freq < 1200 THEN 1 ELSE 0

RECURSIVE decodeVISBits(_, _, _, _)
decodeVISBits(smp, idx, bit, fs) ==
    IF bit = 7 THEN 0
    ELSE visBitValue(detectFrequency(smp, idx, 30000, 1, fs)) * (2 ^ bit)
         + decodeVISBits(smp, idx + floorMul(30000, 1, fs), bit + 1, fs)

\* decodeVIS(samples, startIdx): the 7 bits after the start bit, LSB first.
decodeVIS(smp, startIdx, fs) ==
    decodeVISBits(smp, startIdx + floorMul(30000, 1, fs), 0, fs)

\* The modes whose visCode equals the decoded value (at most one).
visMatches(visCode) == {m \in ModeKeys : SSTV_MODES[m].visCode = visCode}

\* detectMode's search bound and stride.
searchSamples(smp, fs) == Min(StreamLen(smp), fs * 2)
visStep(fs) == (fs * 5) \div 10000

\* One position of detectMode's loop: the modes matched at position i.
visAt(smp, i, fs) ==
    IF Abs(detectFrequency(smp, i, 30000, 1, fs) - 1900) < 75
    THEN visMatches(decodeVIS(smp, i, fs))
    ELSE {}

\* What detectMode returns when the loop ends without a match.
detectModeFallbackNull == "null"

detectModeFallback == "ROBOT36"


---------------------------------------------------------------------------
(* decodeAudio up to decodeImage: detectMode as a loop over positions.     *)

\* The VIS preamble of mode m, alone, as a sample stream.
visPreamble(m, fs) == addTones(<< >>, addVISCode(m), fs)

\* Streams handed to detectMode: the preamble of every mode, the preamble of
\* a VIS code no mode has (95), a bare leader tone, and no samples at all.
VisInputs(fs) ==
    {visPreamble(m, fs) : m \in ModeKeys}
    \cup {addTones(<< >>, visTones(95), fs),
          addTones(<< >>, << Tone(Hz(1900), 300000, 1) >>, fs),
          << >>}

DecodeRates == {48000, 44100}

InitVIS ==
    /\ EncoderIdle /\ pixels = Image(<<0, 0, 0>>, <<0, 0, 0>>) /\ OthersIdle
    /\ decPc = "detectMode"
    /\ sampleRate \in DecodeRates
    /\ input \in VisInputs(sampleRate)
    /\ mode = "null" /\ scanI = 0 /\ visHit = FALSE
    /\ searchK = 0 /\ position = -1 /\ y = 0
    /\ imageData = << >> /\ chromaU = << >> /\ chromaV = << >>
    /\ written = {} /\ linesDecoded = 0 /\ lastSync = "none"

\* One iteration of detectMode's loop: return the matching mode, or step on.
DetectModeStep ==
    /\ decPc = "detectMode"
    /\ scanI < searchSamples(input, sampleRate) - 1000
    /\ LET hit == visAt(input, scanI, sampleRate)
       IN  IF hit # {}
           THEN /\ mode' = CHOOSE m \in hit : TRUE
                /\ visHit' = TRUE
                /\ decPc' = "detected"
                /\ scanI' = scanI
           ELSE /\ scanI' = scanI + visStep(sampleRate)
                /\ UNCHANGED <<mode, visHit, decPc>>
    /\ UNCHANGED <<encVars, otherVars, sampleRate, input, searchK, position, y, imageData,
                   chromaU, chromaV, written, linesDecoded, lastSync>>

\* The loop ended without a match.
DetectModeFallback ==
    /\ decPc = "detectMode"
    /\ scanI >= searchSamples(input, sampleRate) - 1000
    /\ mode' = detectModeFallback
    /\ decPc' = "detected"
    /\ UNCHANGED <<encVars, otherVars, sampleRate, input, scanI, visHit, searchK, position, y,
                   imageData, chromaU, chromaV, written, linesDecoded, lastSync>>

\* decodeAudio after detectMode: throw when there is no mode, else decodeImage.
DecodeAudioProceed ==
    /\ decPc = "detected"
    /\ decPc' = IF mode = "null" THEN "errorMode" ELSE "decodeImage"
    /\ UNCHANGED <<encVars, otherVars, sampleRate, mode, input, scanI, visHit, searchK, position, y,
                   imageData, chromaU, chromaV, written, linesDecoded, lastSync>>

NextVIS == DetectModeStep \/ DetectModeFallback \/ DecodeAudioProceed

SpecVIS == InitVIS /\ [][NextVIS]_vars


---------------------------------------------------------------------------
(* SSTVDecoder: scan lines.                                                *)

freqToValueTruncated(freq, lo, hi) ==
    Max(lo, Min(hi, lo + ((freq - FREQ_BLACK) * (hi - lo)) \div 800))

\* Math.max(lo, Math.min(hi, Math.round(lo + ((freq - 1500) / 800) * (hi - lo))))
freqToValue(freq, lo, hi) ==
    Max(lo, Min(hi, ((freq - FREQ_BLACK) * (hi - lo) * 2 + (2 * lo + 1) * 800) \div 1600))

\* The frequency decodeScanLine estimates for a pixel window at pos: a window
\* of group pixels, or what is left of the stream (the source computes the
\* rest as a duration and back; the model takes the sample count).
scanFreq(smp, pos, dn, dd, group, spp, fs) ==
    IF pos + group * spp <= StreamLen(smp)
    THEN detectFrequencyRange(smp, pos, dn * group, dd, fs)
    ELSE detectFrequencyRangeN(smp, pos, StreamLen(smp) - pos)

\* The pixels x of a line that a scan starting at startPos reaches: the loop
\* breaks at the first pos >= samples.length.
scanReach(smp, startPos, spp, width) ==
    {x \in 0..(width - 1) : startPos + x * spp < StreamLen(smp)}

\* decodeScanLine(samples, startPos, imageData, y, channel): the new raster.
\* channel 1 = R, 2 = G, 3 = B; alpha is index 4.
decodeScanLine(smp, startPos, img, yy, channel, m, fs) ==
    LET width == SSTV_MODES[m].width
        spp == floorMul(SSTV_MODES[m].scanTime, width, fs)
        reach == scanReach(smp, startPos, spp, width)
        val(x) == freqToValue(scanFreq(smp, startPos + x * spp, SSTV_MODES[m].scanTime,
                                       width, 4, spp, fs), 0, 255)
    IN  [i \in DOMAIN img |->
            IF i \div width = yy /\ (i % width) \in reach
            THEN [img[i] EXCEPT ![channel] = val(i % width), ![4] = 255]
            ELSE img[i]]

---------------------------------------------------------------------------
(* The frequency mapping of a channel value, end to end: the tone addScanLine
   emits for the value, the estimate detectFrequencyRange gives for a window
   of that tone, and the value decodeScanLine derives from the estimate.   *)

\* The tones analysed: the pixel tone of every channel value, and tones away
\* from the pixel band (sync, the edges of the sweep, above white).
MapTones ==
    {pixelFreq(v) : v \in 0..255}
        \cup {Hz(f) : f \in {1100, FREQ_SYNC, 1450, 1499, 2301, 2350, 2500}}

\* Analysis windows, in samples: the shortest detectFrequencyRange analyses,
\* and four Martin M1 pixels at 48 kHz.
MapWindows == {10, 84}

InitMap ==
    /\ EncoderIdle /\ pixels = Image(<<0, 0, 0>>, <<0, 0, 0>>) /\ DecoderIdle
    /\ mapPc = "tone"
    /\ mapTone \in MapTones
    /\ mapWindow \in MapWindows
    /\ mapFreq = -1 /\ mapValue = -1
    /\ WavIdle /\ ReuseIdle /\ FmIdle /\ ExtraIdle

\* detectFrequencyRange on a window filled with the tone.
EstimateTone ==
    /\ mapPc = "tone"
    /\ mapFreq' = detectFrequencyRangeN(<< <<mapTone, 0, mapWindow>> >>, 0, mapWindow)
    /\ mapPc' = "estimated"
    /\ UNCHANGED <<encVars, decVars, wavVars, reuseVars, fmVars, extraVars, mapTone, mapWindow, mapValue>>

\* decodeScanLine's mapping of the estimate to a channel value.
MapToValue ==
    /\ mapPc = "estimated"
    /\ mapValue' = freqToValue(mapFreq, 0, 255)
    /\ mapPc' = "decoded"
    /\ UNCHANGED <<encVars, decVars, wavVars, reuseVars, fmVars, extraVars, mapTone, mapWindow, mapFreq>>

NextMap == EstimateTone \/ MapToValue

SpecMap == InitMap /\ [][NextMap]_vars

\* decodeScanLineYUV(samples, startPos, imageData, y): Y in video range 16..235
\* written to R, G and B.
decodeScanLineYUV(smp, startPos, img, yy, m, fs) ==
    LET width == SSTV_MODES[m].width
        spp == floorMul(88000, width, fs)
        reach == scanReach(smp, startPos, spp, width)
        val(x) == freqToValue(scanFreq(smp, startPos + x * spp, 88000, width, 8, spp, fs),
                              16, 235)
    IN  [i \in DOMAIN img |->
            IF i \div width = yy /\ (i % width) \in reach
            THEN <<val(i % width), val(i % width), val(i % width), 255>>
            ELSE img[i]]

\* The pixels a scan of line yy starting at startPos writes.
scanWrites(smp, startPos, yy, spp, width) ==
    {yy * width + x : x \in scanReach(smp, startPos, spp, width)}

\* decodeScanLineChroma's window of chroma pixel x: <<windowStart, windowEnd>>.
chromaWindow(startPos, x, halfWidth, fs) ==
    LET spp == floorMul(44000, halfWidth, fs)
        windowSamples == floorMul(43120, halfWidth, fs)     \* pixelTime * 0.98
        pixelCenter == startPos + x * spp + (spp \div 2)
        windowStart == Max(0, pixelCenter + ((0 - windowSamples) \div 2))
    IN  <<windowStart, windowStart + windowSamples>>

\* The chroma pixels the loop reaches: it breaks at the first window that
\* does not end inside the stream.
chromaReach(smp, startPos, halfWidth, fs) ==
    {x \in 0..(halfWidth - 1) : chromaWindow(startPos, x, halfWidth, fs)[2] < StreamLen(smp)}

decodeScanLineChromaFullRange(smp, startPos, chroma, yy, m, fs) ==
    LET width == SSTV_MODES[m].width
        halfWidth == width \div 2
        reach == chromaReach(smp, startPos, halfWidth, fs)
        val(x) == freqToValue(
                      detectFrequencyRange(smp, chromaWindow(startPos, x, halfWidth, fs)[1],
                                           43120, halfWidth, fs), 0, 255)
    IN  [i \in DOMAIN chroma |->
            IF i \div width = yy /\ ((i % width) \div 2) \in reach
            THEN val((i % width) \div 2)
            ELSE chroma[i]]

\* decodeScanLineChroma(samples, startPos, chromaU, chromaV, y, componentType):
\* the new contents of the scratch buffer of componentType.
decodeScanLineChroma(smp, startPos, chroma, yy, m, fs) ==
    LET width == SSTV_MODES[m].width
        halfWidth == width \div 2
        reach == chromaReach(smp, startPos, halfWidth, fs)
        val(x) == freqToValue(
                      detectFrequencyRange(smp, chromaWindow(startPos, x, halfWidth, fs)[1],
                                           43120, halfWidth, fs), 16, 240)
    IN  [i \in DOMAIN chroma |->
            IF i \div width = yy /\ ((i % width) \div 2) \in reach
            THEN val((i % width) \div 2)
            ELSE chroma[i]]

yuvChannelUnclamped(s) ==
    ((s \div 100000) * 3906 + 5000 + (((s % 100000) * 3906) \div 100000)) \div 10000

\* Math.round(0.003906 * (s / 1000)), clamped to [0, 255]; s is the bracket
\* of the BT.601 formula in thousandths.  The product s * 3906 is split at
\* 10^5 to stay within the integers of the checker.
yuvChannel(s) ==
    Max(0, Min(255,
        ((s \div 100000) * 3906 + 5000 + (((s % 100000) * 3906) \div 100000)) \div 10000))

yuvToRgbNoOffset(Y, U, V) ==
    LET yTerm == 298082 * (Y - 16)
    IN  << yuvChannel(yTerm + 408583 * V),
           yuvChannel(yTerm - 100291 * U - 208120 * V),
           yuvChannel(yTerm + 516411 * U) >>

\* The RGB triple convertYUVtoRGB computes from Y, U (Cb) and V (Cr).
yuvToRgb(Y, U, V) ==
    LET yTerm == 298082 * (Y - 16)
    IN  << yuvChannel(yTerm + 408583 * (V - 128)),
           yuvChannel(yTerm - 100291 * (U - 128) - 208120 * (V - 128)),
           yuvChannel(yTerm + 516411 * (U - 128)) >>

\* chroma[idx] || 128
orNeutral(v) == IF v = 0 THEN 128 ELSE v

convertYUVtoRGBOwnLine(img, cU, cV, m) ==
    [i \in DOMAIN img |->
        LET rgb == yuvToRgb(img[i][1], orNeutral(cU[i]), orNeutral(cV[i]))
        IN  <<rgb[1], rgb[2], rgb[3], img[i][4]>>]

\* convertYUVtoRGB(imageData, chromaU, chromaV): every pixel of every line
\* pair is rewritten from its R channel, V of the even line, U of the odd one.
convertYUVtoRGB(img, cU, cV, m) ==
    LET width == SSTV_MODES[m].width
        lines == SSTV_MODES[m].lines
        evenLine(i) == ((i \div width) \div 2) * 2
        oddLine(i) == Min(evenLine(i) + 1, lines - 1)
        rgb(i) == yuvToRgb(img[i][1],
                           orNeutral(cU[oddLine(i) * width + (i % width)]),
                           orNeutral(cV[evenLine(i) * width + (i % width)]))
    IN  [i \in DOMAIN img |-> <<rgb(i)[1], rgb(i)[2], rgb(i)[3], img[i][4]>>]


---------------------------------------------------------------------------
(* SSTVDecoder: sync search.                                               *)

\* Math.max(0.004, this.mode?.syncPulse || 0.005), in microseconds
syncDuration(m) == Max(4000, SSTV_MODES[m].syncPulse)

\* Math.floor(this.sampleRate * 0.0002)
samplesPerCheck(fs) == (fs * 2) \div 10000

\* findSyncPulse's loop bound for a search that may go up to endPos.
searchEnd(smp, endPos, m, fs) ==
    Min(endPos, StreamLen(smp) - floorMul(syncDuration(m), 1, fs))

syncAtLenient(smp, i, m, fs) ==
    Abs(detectFrequency(smp, i, syncDuration(m), 1, fs) - FREQ_SYNC) < 800

\* The body of findSyncPulse's loop at position i: 1200 Hz within 200 Hz over
\* the pulse, and no third of the pulse further than 200 Hz from 1200 Hz.
syncAt(smp, i, m, fs) ==
    LET sd == syncDuration(m)
    IN  /\ Abs(detectFrequency(smp, i, sd, 1, fs) - FREQ_SYNC) < 200
        /\ \A j \in 0..2 :
              ~(Abs(detectFrequency(smp, i + floorMul(sd * j, 3, fs), sd, 3, fs)
                    - FREQ_SYNC) > 200)

searchPositionsEarlyFirst(fs) ==
    << floorMul(500000, 1, fs), floorMul(610000, 1, fs), floorMul(800000, 1, fs), 0 >>

\* decodeImage's searchPositions
searchPositions(fs) ==
    << floorMul(610000, 1, fs), floorMul(500000, 1, fs), floorMul(800000, 1, fs), 0 >>

\* Math.floor(maxLineDuration * sampleRate): twice sync + porch + 3 scans
maxLineSamples(m, fs) ==
    floorMul((SSTV_MODES[m].syncPulse + SSTV_MODES[m].syncPorch
              + SSTV_MODES[m].scanTime * 3) * 2, 1, fs)

\* expectedLinePosition: Math.floor(scanTime * sampleRate * 0.5) past the cursor
expectedLinePosition(pos, m, fs) == pos + floorMul(SSTV_MODES[m].scanTime, 2, fs)

---------------------------------------------------------------------------
(* SSTVDecoder: cursor arithmetic of decodeImage's line loop.              *)

sepSamples(m, fs) ==
    IF SSTV_MODES[m].separatorPulse # 0
    THEN floorMul(SSTV_MODES[m].separatorPulse, 1, fs) ELSE 0

afterSyncStay(pos, m, fs) == pos

\* The cursor after sync pulse and porch.
afterSync(pos, m, fs) ==
    pos + floorMul(SSTV_MODES[m].syncPulse + SSTV_MODES[m].syncPorch, 1, fs)

\* The chroma component of line yy: currentChromaType.
chromaTypeCarried(yy) ==
    IF currentChromaType = "undefined" THEN (IF yy % 2 = 0 THEN "V" ELSE "U")
    ELSE IF currentChromaType = "V" THEN "U" ELSE "V"

chromaTypeSwapped(yy) == IF yy % 2 = 0 THEN "U" ELSE "V"

chromaType(yy) == IF yy % 2 = 0 THEN "V" ELSE "U"

---------------------------------------------------------------------------
(* decodeImage as a state machine.                                         *)

\* The first n samples of a stream.
Truncate(smp, n) ==
    LET kept == SelectSeq(smp, LAMBDA seg : seg[2] < n)
    IN  [k \in 1..Len(kept) |-> <<kept[k][1], kept[k][2], Min(kept[k][3], n)>>]

\* The tones of line yy with the sync pulse replaced by black level: a line
\* whose sync pulse did not survive the channel.
lostSyncLine(m, data, yy) ==
    LET ts == addImageLine(m, data, yy)
    IN  [k \in 1..Len(ts) |-> IF k = 1 THEN Tone(Hz(FREQ_BLACK), ts[1].dn, ts[1].dd) ELSE ts[k]]

RECURSIVE lostSyncLines(_, _, _)
\* Lines 1 .. n-1 without their sync pulses.
lostSyncLines(m, data, n) ==
    IF n <= 1 THEN << >>
    ELSE lostSyncLines(m, data, n - 1) \o lostSyncLine(m, data, n - 1)

\* A transmission whose sync pulses are lost after line 0.
lostSyncAudio(m, data, fs) ==
    addTones(<< >>, addVISCode(m) \o addImageLine(m, data, 0)
                    \o lostSyncLines(m, data, SSTV_MODES[m].lines), fs)

\* The tones of Robot 36 line yy with the separator of the other parity: the
\* separator cue disagrees with the line number.
swappedSepLine(m, data, yy) ==
    LET ts == addImageLine(m, data, yy)
        k == SSTV_MODES[m].width + 3
    IN  [j \in 1..Len(ts) |->
            IF j = k
            THEN Tone(IF ts[k].f = Hz(FREQ_BLACK) THEN Hz(FREQ_WHITE) ELSE Hz(FREQ_BLACK),
                      ts[k].dn, ts[k].dd)
            ELSE ts[j]]

RECURSIVE swappedSepLines(_, _, _)
swappedSepLines(m, data, n) ==
    IF n = 0 THEN << >>
    ELSE swappedSepLines(m, data, n - 1) \o swappedSepLine(m, data, n - 1)

\* A Robot 36 transmission whose separators all carry the wrong frequency.
swappedSepAudio(m, data, fs) ==
    addTones(<< >>, addVISCode(m) \o swappedSepLines(m, data, SSTV_MODES[m].lines), fs)

\* A whole transmission followed by one second of unmodulated 1900 Hz carrier.
carrierTailAudio(m, data, fs) ==
    addTones(generateAudio(m, data, fs), << Tone(Hz(1900), 1000000, 1) >>, fs)

\* smp after count addTone calls of one frequency and one duration: count
\* times numSamples samples of the frequency, held as one segment.
addToneRun(smp, f, dn, dd, count, fs) ==
    LET n == floorMul(dn, dd, fs)
        s == StreamLen(smp)
    IN  IF n > 0 /\ count > 0 THEN Append(smp, <<f, s, s + count * n>>) ELSE smp

\* smp after one iteration of addImageData's loop for line yy of a solid grey
\* raster of level g that is width pixels wide.
wideImageLine(smp, m, g, yy, width, fs) ==
    LET px == <<g, g, g>>
        head == addTones(smp, << Tone(Hz(FREQ_SYNC), SSTV_MODES[m].syncPulse, 1),
                                 Tone(Hz(FREQ_BLACK), SSTV_MODES[m].syncPorch, 1) >>, fs)
        scan(t) == addToneRun(t, pixelFreq(g), SSTV_MODES[m].scanTime, width, width, fs)
        sep(t) == addTones(t, sepTones(m), fs)
        luma == addToneRun(head, lumaFreq(px), 88000, width, width, fs)
        sepFreq == IF yy % 2 = 0 THEN Hz(FREQ_BLACK) ELSE Hz(FREQ_WHITE)
        gap == addTones(luma, << Tone(sepFreq, 4500, 1), Tone(Hz(FREQ_BLACK), 1500, 1) >>, fs)
    IN  IF SSTV_MODES[m].colorFormat = "RGB"
        THEN scan(sep(scan(sep(scan(head)))))
        ELSE addToneRun(gap, chromaFreq(px, px, yy % 2 = 0), 44000 * 2, width,
                        (width + 1) \div 2, fs)

\* smp after the lines 0 .. n-1 of such a raster.
RECURSIVE wideImageData(_, _, _, _, _, _)
wideImageData(smp, m, g, n, width, fs) ==
    IF n = 0 THEN smp
    ELSE wideImageLine(wideImageData(smp, m, g, n - 1, width, fs), m, g, n - 1, width, fs)

\* The stream generateAudio builds for a solid grey raster width pixels wide.
wideAudio(m, g, width, fs) ==
    wideImageData(addTones(<< >>, addVISCode(m), fs), m, g, SSTV_MODES[m].lines, width, fs)

\* The sample index at which line yy of a transmission begins.
lineStart(m, data, yy, fs) ==
    StreamLen(addTones(<< >>, addVISCode(m) \o addImageData(m, data, yy), fs))

DecImages == {Image(<<51, 102, 204>>, <<255, 255, 255>>), Image(<<255, 0, 0>>, <<255, 0, 0>>)}

SyncLostImage == Image(<<51, 102, 204>>, <<255, 255, 255>>)

\* Solid neutral grey rasters.
GreyLevels == {0, 128, 255}
GreyImage(g) == Image(<<g, g, g>>, <<g, g, g>>)

\* Where a transmission is cut short: in the middle of line 0, just after
\* line 1 begins, in the middle of line 1.
CutPoints(m, d, fs) ==
    {(lineStart(m, d, 0, fs) + lineStart(m, d, 1, fs)) \div 2,
     lineStart(m, d, 1, fs) + 100,
     (lineStart(m, d, 1, fs) + lineStart(m, d, 2, fs)) \div 2}

\* Streams without a 1200 Hz pulse: nothing, and 100 ms of 1900 Hz.
NoSyncInputs(fs) == {<< >>, addTones(<< >>, << Tone(Hz(1900), 100000, 1) >>, fs)}

\* Streams handed to decodeImage in mode m: whole transmissions, transmissions
\* cut short, transmissions that lose their sync pulses, whole or cut
\* short, Robot 36 transmissions with the separator frequencies exchanged,
\* whole Robot 36 transmissions of solid grey rasters, a Robot 36
\* transmission followed by carrier, the whole transmission of a grey raster
\* of the program's width, and streams without any sync pulse.
DecInputs(m, fs) ==
    {generateAudio(m, d, fs) : d \in DecImages}
    \cup UNION {{Truncate(generateAudio(m, d, fs), n) : n \in CutPoints(m, d, fs)} :
                   d \in DecImages}
    \cup {lostSyncAudio(m, SyncLostImage, fs),
          Truncate(lostSyncAudio(m, SyncLostImage, fs),
                   lineStart(m, SyncLostImage, 1, fs) + 2000)}
    \cup (IF SSTV_MODES[m].colorFormat = "YUV"
          THEN {swappedSepAudio(m, SyncLostImage, fs)}
                   \cup {generateAudio(m, GreyImage(g), fs) : g \in GreyLevels}
                   \cup {carrierTailAudio(m, SyncLostImage, fs)}
          ELSE {})
    \cup {wideAudio(m, 128, fullWidth, fs)}
    \cup NoSyncInputs(fs)

\* decodeImage is entered with the mode detectMode returned or the caller
\* forced (decodeWithMode).
InitDec ==
    /\ EncoderIdle /\ pixels = Image(<<0, 0, 0>>, <<0, 0, 0>>) /\ OthersIdle
    /\ decPc = "decodeImage"
    /\ sampleRate = 48000
    /\ mode \in ModeKeys
    /\ input \in DecInputs(mode, sampleRate)
    /\ scanI = 0 /\ visHit = FALSE
    /\ searchK = 0 /\ position = -1 /\ y = 0
    /\ imageData = << >> /\ chromaU = << >> /\ chromaV = << >>
    /\ written = {} /\ linesDecoded = 0 /\ lastSync = "none"

\* Raster and chroma scratch are initialised; the search starts at the first
\* of the searchPositions.
DecodeImageInit ==
    /\ decPc = "decodeImage"
    /\ imageData' = [i \in 0..(SSTV_MODES[mode].width * SSTV_MODES[mode].lines - 1)
                        |-> <<0, 0, 0, 255>>]
    /\ chromaU' = IF SSTV_MODES[mode].colorFormat = "YUV"
                  THEN [i \in 0..(SSTV_MODES[mode].width * SSTV_MODES[mode].lines - 1) |-> 128]
                  ELSE << >>
    /\ chromaV' = chromaU'
    /\ searchK' = 1
    /\ scanI' = searchPositions(sampleRate)[1]
    /\ position' = -1
    /\ decPc' = "initSync"
    /\ UNCHANGED <<encVars, otherVars, sampleRate, mode, input, visHit, y, written, linesDecoded, lastSync>>

\* One iteration of findSyncPulse(samples, startPos) in the initial search.
InitSyncStep ==
    /\ decPc = "initSync"
    /\ scanI < searchEnd(input, StreamLen(input), mode, sampleRate)
    /\ IF syncAt(input, scanI, mode, sampleRate)
       THEN /\ position' = scanI
            /\ lastSync' = "initial"
            /\ decPc' = "line"
            /\ scanI' = scanI
       ELSE /\ scanI' = scanI + samplesPerCheck(sampleRate)
            /\ UNCHANGED <<position, lastSync, decPc>>
    /\ UNCHANGED <<encVars, otherVars, sampleRate, mode, input, visHit, searchK, y, imageData,
                   chromaU, chromaV, written, linesDecoded>>

\* findSyncPulse returned -1: try the next start position, or throw.
InitSyncMiss ==
    /\ decPc = "initSync"
    /\ scanI >= searchEnd(input, StreamLen(input), mode, sampleRate)
    /\ IF searchK < Len(searchPositions(sampleRate))
       THEN /\ searchK' = searchK + 1
            /\ scanI' = searchPositions(sampleRate)[searchK + 1]
            /\ decPc' = decPc
       ELSE /\ decPc' = "errorSync"
            /\ UNCHANGED <<searchK, scanI>>
    /\ UNCHANGED <<encVars, otherVars, sampleRate, mode, input, visHit, position, y, imageData,
                   chromaU, chromaV, written, linesDecoded, lastSync>>

\* The line loop is entered for line y: the cursor skips sync pulse and porch.
SkipSync ==
    /\ decPc = "line"
    /\ y < SSTV_MODES[mode].lines /\ position < StreamLen(input)
    /\ position' = afterSync(position, mode, sampleRate)
    /\ linesDecoded' = linesDecoded + 1
    /\ decPc' = IF SSTV_MODES[mode].colorFormat = "RGB" THEN "green" ELSE "luma"
    /\ UNCHANGED <<encVars, otherVars, sampleRate, mode, input, scanI, visHit, searchK, y, imageData,
                   chromaU, chromaV, written, lastSync>>

\* The pixels one RGB scan of line y writes from the cursor.
rgbWrites ==
    scanWrites(input, position, y,
               floorMul(SSTV_MODES[mode].scanTime, SSTV_MODES[mode].width, sampleRate),
               SSTV_MODES[mode].width)

\* Decode Green, skip separator.
ScanGreen ==
    /\ decPc = "green"
    /\ imageData' = decodeScanLine(input, position, imageData, y, 2, mode, sampleRate)
    /\ written' = written \cup rgbWrites
    /\ position' = position + floorMul(SSTV_MODES[mode].scanTime, 1, sampleRate)
                            + sepSamples(mode, sampleRate)
    /\ decPc' = "blue"
    /\ UNCHANGED <<encVars, otherVars, sampleRate, mode, input, scanI, visHit, searchK, y,
                   chromaU, chromaV, linesDecoded, lastSync>>

\* Decode Blue, skip separator.
ScanBlue ==
    /\ decPc = "blue"
    /\ imageData' = decodeScanLine(input, position, imageData, y, 3, mode, sampleRate)
    /\ written' = written \cup rgbWrites
    /\ position' = position + floorMul(SSTV_MODES[mode].scanTime, 1, sampleRate)
                            + sepSamples(mode, sampleRate)
    /\ decPc' = "red"
    /\ UNCHANGED <<encVars, otherVars, sampleRate, mode, input, scanI, visHit, searchK, y,
                   chromaU, chromaV, linesDecoded, lastSync>>

\* Decode Red; the search for the next sync starts at the cursor.
ScanRed ==
    /\ decPc = "red"
    /\ imageData' = decodeScanLine(input, position, imageData, y, 1, mode, sampleRate)
    /\ written' = written \cup rgbWrites
    /\ position' = position + floorMul(SSTV_MODES[mode].scanTime, 1, sampleRate)
    /\ scanI' = position'
    /\ decPc' = "nextSync"
    /\ UNCHANGED <<encVars, otherVars, sampleRate, mode, input, visHit, searchK, y,
                   chromaU, chromaV, linesDecoded, lastSync>>

\* Decode Y; while the cursor is inside the stream, skip separator and porch.
ScanLuma ==
    /\ decPc = "luma"
    /\ imageData' = decodeScanLineYUV(input, position, imageData, y, mode, sampleRate)
    /\ written' = written \cup scanWrites(input, position, y,
                                          floorMul(88000, SSTV_MODES[mode].width, sampleRate),
                                          SSTV_MODES[mode].width)
    /\ LET p1 == position + floorMul(88000, 1, sampleRate)
           p2 == p1 + floorMul(4500, 1, sampleRate) + floorMul(1500, 1, sampleRate)
       IN  /\ position' = IF p1 < StreamLen(input) THEN p2 ELSE p1
           /\ decPc' = IF p1 < StreamLen(input) /\ p2 < StreamLen(input)
                       THEN "chroma" ELSE "nextSync"
           /\ currentChromaType' = IF p1 < StreamLen(input) THEN chromaType(y)
                                   ELSE currentChromaType
    /\ scanI' = position'
    /\ UNCHANGED <<encVars, mapVars, wavVars, fmVars, extraVars, firstRaster, sampleRate, mode, input, visHit,
                   searchK, y, chromaU, chromaV, linesDecoded, lastSync>>

\* Decode the chroma scan into the scratch buffer of currentChromaType.
ScanChroma ==
    /\ decPc = "chroma"
    /\ IF chromaType(y) = "U"
       THEN /\ chromaU' = decodeScanLineChroma(input, position, chromaU, y, mode, sampleRate)
            /\ UNCHANGED chromaV
       ELSE /\ chromaV' = decodeScanLineChroma(input, position, chromaV, y, mode, sampleRate)
            /\ UNCHANGED chromaU
    /\ position' = position + floorMul(44000, 1, sampleRate)
    /\ scanI' = position'
    /\ decPc' = "nextSync"
    /\ UNCHANGED <<encVars, otherVars, sampleRate, mode, input, visHit, searchK, y, imageData,
                   written, linesDecoded, lastSync>>

\* One iteration of findSyncPulse(samples, position, searchLimit).
NextSyncStep ==
    /\ decPc = "nextSync"
    /\ scanI < searchEnd(input, position + maxLineSamples(mode, sampleRate), mode, sampleRate)
    /\ IF syncAt(input, scanI, mode, sampleRate)
       THEN /\ position' = scanI
            /\ lastSync' = "window"
            /\ y' = y + 1
            /\ decPc' = "line"
            /\ scanI' = scanI
       ELSE /\ scanI' = scanI + samplesPerCheck(sampleRate)
            /\ UNCHANGED <<position, lastSync, y, decPc>>
    /\ UNCHANGED <<encVars, otherVars, sampleRate, mode, input, visHit, searchK, imageData,
                   chromaU, chromaV, written, linesDecoded>>

\* if (expectedLinePosition < samples.length)
expectedAlways(smp, pos, m, fs) == TRUE

expectedInStream(smp, pos, m, fs) == expectedLinePosition(pos, m, fs) < StreamLen(smp)

\* nextSync is -1: search again from the expected position when it lies in
\* the stream, else leave the cursor and go on to the next iteration.
NextSyncMiss ==
    /\ decPc = "nextSync"
    /\ scanI >= searchEnd(input, position + maxLineSamples(mode, sampleRate), mode, sampleRate)
    /\ IF expectedInStream(input, position, mode, sampleRate)
       THEN /\ scanI' = expectedLinePosition(position, mode, sampleRate)
            /\ decPc' = "expandedSync"
            /\ UNCHANGED <<y, lastSync>>
       ELSE /\ y' = y + 1
            /\ lastSync' = "kept"
            /\ decPc' = "line"
            /\ scanI' = scanI
    /\ UNCHANGED <<encVars, otherVars, sampleRate, mode, input, visHit, searchK, position, imageData,
                   chromaU, chromaV, written, linesDecoded>>

\* One iteration of findSyncPulse in the expanded window.
ExpandedSyncStep ==
    /\ decPc = "expandedSync"
    /\ scanI < searchEnd(input, expectedLinePosition(position, mode, sampleRate)
                                + maxLineSamples(mode, sampleRate), mode, sampleRate)
    /\ IF syncAt(input, scanI, mode, sampleRate)
       THEN /\ position' = scanI
            /\ lastSync' = "expanded"
            /\ y' = y + 1
            /\ decPc' = "line"
            /\ scanI' = scanI
       ELSE /\ scanI' = scanI + samplesPerCheck(sampleRate)
            /\ UNCHANGED <<position, lastSync, y, decPc>>
    /\ UNCHANGED <<encVars, otherVars, sampleRate, mode, input, visHit, searchK, imageData,
                   chromaU, chromaV, written, linesDecoded>>

\* expandedSync is -1: the cursor takes the expected position.
ExpandedSyncMiss ==
    /\ decPc = "expandedSync"
    /\ scanI >= searchEnd(input, expectedLinePosition(position, mode, sampleRate)
                                 + maxLineSamples(mode, sampleRate), mode, sampleRate)
    /\ position' = expectedLinePosition(position, mode, sampleRate)
    /\ lastSync' = "expected"
    /\ y' = y + 1
    /\ decPc' = "line"
    /\ UNCHANGED <<encVars, otherVars, sampleRate, mode, input, scanI, visHit, searchK, imageData,
                   chromaU, chromaV, written, linesDecoded>>

\* The loop condition fails: YUV rasters are converted and the raster is
\* delivered.
DeliverImage ==
    /\ decPc = "line"
    /\ ~(y < SSTV_MODES[mode].lines /\ position < StreamLen(input))
    /\ imageData' = IF SSTV_MODES[mode].colorFormat = "YUV"
                    THEN convertYUVtoRGB(imageData, chromaU, chromaV, mode)
                    ELSE imageData
    /\ decPc' = "done"
    /\ UNCHANGED <<encVars, otherVars, sampleRate, mode, input, scanI, visHit, searchK, position, y,
                   chromaU, chromaV, written, linesDecoded, lastSync>>

\* decodeWithMode is called again on the same decoder with the same file and
\* mode name: this.mode and this.sampleRate are assigned the same values,
\* this.currentChromaType is what the first decode left, the locals of
\* decodeImage are new.
DecodeAgain ==
    /\ decPc = "done"
    /\ firstRaster = << >>
    /\ firstRaster' = imageData
    /\ decPc' = "decodeImage"
    /\ scanI' = 0 /\ searchK' = 0 /\ position' = -1 /\ y' = 0
    /\ imageData' = << >> /\ chromaU' = << >> /\ chromaV' = << >>
    /\ written' = {} /\ linesDecoded' = 0 /\ lastSync' = "none"
    /\ UNCHANGED <<encVars, mapVars, wavVars, fmVars, extraVars, currentChromaType, sampleRate, mode, input,
                   visHit>>

NextDec ==
    \/ DecodeAgain
    \/ DecodeImageInit
    \/ InitSyncStep
    \/ InitSyncMiss
    \/ SkipSync
    \/ ScanGreen
    \/ ScanBlue
    \/ ScanRed
    \/ ScanLuma
    \/ ScanChroma
    \/ NextSyncStep
    \/ NextSyncMiss
    \/ ExpandedSyncStep
    \/ ExpandedSyncMiss
    \/ DeliverImage

SpecDec == InitDec /\ [][NextDec]_vars

---------------------------------------------------------------------------
(* FMDemodulator.demodulate and demodulateAll.  Angles are whole multiples
   of pi / PhaseSteps.  The baseband conversion and the lowpass filter are
   taken by their result: the angle filtered.arg() of each input sample,
   which is any angle of [-pi, pi].                                         *)

\* The resolution of angles: steps per pi.
PhaseSteps == 120

\* Angles filtered.arg() takes: the ends and the middle of [-pi, pi], and
\* angles one step beside them.
FmAngles ==
    {0 - PhaseSteps, 1 - PhaseSteps, 0 - (PhaseSteps \div 2), -1, 0, 1,
     PhaseSteps \div 2, PhaseSteps - 1, PhaseSteps}

\* The longest sample sequence handed to demodulateAll.
MaxFmSamples == 3

\* this.scale * delta = delta * sampleRate / (Math.PI * bandwidth) for the
\* bandwidth 800 Hz of SSTV: fmNum(delta, fs) / fmDen(fs).
fmNum(delta, fs) == delta * fs
fmDen(fs) == PhaseSteps * 800

wrapDeltaNone(delta) == delta

\* if (delta > Math.PI) delta -= 2 * Math.PI; else if (delta < -Math.PI) delta += 2 * Math.PI
wrapDelta(delta) ==
    IF delta > PhaseSteps THEN delta - 2 * PhaseSteps
    ELSE IF delta < 0 - PhaseSteps THEN delta + 2 * PhaseSteps
    ELSE delta

\* Math.max(-1, Math.min(1, normalized)), in 1/fmDen(fs)
fmClamp(num, fs) == Max(0 - fmDen(fs), Min(fmDen(fs), num))

InitFM ==
    /\ EncoderIdle /\ pixels = Image(<<0, 0, 0>>, <<0, 0, 0>>) /\ DecoderIdle
    /\ MapIdle /\ WavIdle /\ ReuseIdle /\ ExtraIdle
    /\ fmPc = "loop"
    /\ fmRate \in {48000, 44100}
    /\ fmInput \in UNION {[1..n -> FmAngles] : n \in 0..MaxFmSamples}
    /\ fmI = 0 /\ prevPhase = 0 /\ fmDelta = 0 /\ fmOutput = << >>

\* output[i] = this.demodulate(samples[i])
Demodulate ==
    /\ fmPc = "loop"
    /\ fmI < Len(fmInput)
    /\ LET angle == fmInput[fmI + 1]
           delta == wrapDelta(angle - prevPhase)
       IN  /\ prevPhase' = angle
           /\ fmDelta' = delta
           /\ fmOutput' = Append(fmOutput, fmClamp(fmNum(delta, fmRate), fmRate))
    /\ fmI' = fmI + 1
    /\ UNCHANGED <<encVars, decVars, mapVars, wavVars, reuseVars, extraVars, fmPc, fmRate, fmInput>>

\* The loop of demodulateAll is over: output is returned.
DemodulateAllReturn ==
    /\ fmPc = "loop"
    /\ fmI >= Len(fmInput)
    /\ fmPc' = "returned"
    /\ UNCHANGED <<encVars, decVars, mapVars, wavVars, reuseVars, extraVars, fmRate, fmInput, fmI,
                   prevPhase, fmDelta, fmOutput>>

NextFM == Demodulate \/ DemodulateAllReturn

SpecFM == InitFM /\ [][NextFM]_vars

---------------------------------------------------------------------------
(* One scan of a line on both sides (SpecAlign): the pixel loop of
   addScanLine / addScanLineYUV pushes the tones of the scan, then the
   decoder's scan routine returns the cursor it was given plus the scan
   time.                                                                   *)

AlignWidths == {W, fullWidth}

\* The scans of a line of mode m.
AlignKinds(m) == IF SSTV_MODES[m].colorFormat = "RGB" THEN {"G", "B", "R"} ELSE {"Y", "C"}

\* The scan time the routines of a scan work with, in microseconds:
\* mode.scanTime, Y_SCAN_TIME, CHROMA_SCAN_TIME.
alignScanTime(m, kind) ==
    IF kind = "Y" THEN 88000 ELSE IF kind = "C" THEN 44000 ELSE SSTV_MODES[m].scanTime

\* How many tones the encoder's loop pushes: one per pixel, and one per two
\* pixels in the chroma scan (x += 2).
alignTones(kind, width) == IF kind = "C" THEN (width + 1) \div 2 ELSE width

\* numSamples of one tone of the scan: timePerPixel = scanTime / width,
\* timePerChromaPixel = CHROMA_SCAN_TIME / (width / 2).
alignToneSamples(m, kind, width, fs) ==
    IF kind = "C" THEN floorMul(2 * 44000, width, fs)
    ELSE floorMul(alignScanTime(m, kind), width, fs)

InitAlign ==
    /\ EncoderIdle /\ pixels = Image(<<0, 0, 0>>, <<0, 0, 0>>) /\ DecoderIdle
    /\ MapIdle /\ WavIdle /\ ReuseIdle /\ FmIdle /\ StrideIdle /\ AppIdle
    /\ alPc = "encode"
    /\ alMode \in ModeKeys
    /\ alKind \in AlignKinds(alMode)
    /\ alWidth \in AlignWidths
    /\ alRate \in DecodeRates
    /\ alX = 0 /\ alEmitted = 0 /\ alAdvance = 0

\* One iteration of the encoder's pixel loop: addTone(samples, freq, timePer...).
AlignAddTone ==
    /\ alPc = "encode"
    /\ alX < alignTones(alKind, alWidth)
    /\ alEmitted' = alEmitted + Max(0, alignToneSamples(alMode, alKind, alWidth, alRate))
    /\ alX' = alX + 1
    /\ UNCHANGED <<encVars, decVars, mapVars, wavVars, reuseVars, fmVars, strideVars, appVars, alPc, alMode, alKind,
                   alWidth, alRate, alAdvance>>

\* The pixel loop is over.
AlignScanSent ==
    /\ alPc = "encode"
    /\ alX >= alignTones(alKind, alWidth)
    /\ alPc' = "decode"
    /\ UNCHANGED <<encVars, decVars, mapVars, wavVars, reuseVars, fmVars, strideVars, appVars, alMode, alKind,
                   alWidth, alRate, alX, alEmitted, alAdvance>>

\* return startPos + Math.floor(scanTime * this.sampleRate)
AlignScanReturn ==
    /\ alPc = "decode"
    /\ alAdvance' = floorMul(alignScanTime(alMode, alKind), 1, alRate)
    /\ alPc' = "done"
    /\ UNCHANGED <<encVars, decVars, mapVars, wavVars, reuseVars, fmVars, strideVars, appVars, alMode, alKind,
                   alWidth, alRate, alX, alEmitted>>

NextAlign == AlignAddTone \/ AlignScanSent \/ AlignScanReturn

SpecAlign == InitAlign /\ [][NextAlign]_vars

---------------------------------------------------------------------------
(* The scan loops of detectMode and findSyncPulse on their own (SpecStride),
   on a decoder constructed with any positive sample rate.                 *)

\* Sample rates a caller may construct the decoder with.
StrideRates == {1000, 4000, 8000, 48000}

\* Iterations of a loop that are followed.
MaxScans == 500

\* Streams scanned: 0.1 s and 1.5 s of a 1500 Hz tone, which holds neither a
\* VIS code nor a sync pulse.
StrideStreams(fs) ==
    {addTones(<< >>, << Tone(Hz(FREQ_BLACK), d, 1) >>, fs) : d \in {100000, 1500000}}

InitStride ==
    /\ EncoderIdle /\ pixels = Image(<<0, 0, 0>>, <<0, 0, 0>>) /\ DecoderIdle
    /\ MapIdle /\ WavIdle /\ ReuseIdle /\ FmIdle /\ AlignIdle /\ AppIdle
    /\ srPc \in {"detectMode", "findSyncPulse"}
    /\ srRate \in StrideRates
    /\ srMode \in ModeKeys
    /\ srStream \in StrideStreams(srRate)
    /\ srI = 0 /\ srIter = 0

\* One iteration of detectMode's loop: for (i = 0; i < searchSamples - 1000; i += step)
StrideDetectModeStep ==
    /\ srPc = "detectMode"
    /\ srIter < MaxScans
    /\ srI < searchSamples(srStream, srRate) - 1000
    /\ IF visAt(srStream, srI, srRate) # {}
       THEN srPc' = "returned" /\ srI' = srI
       ELSE srPc' = srPc /\ srI' = srI + visStep(srRate)
    /\ srIter' = srIter + 1
    /\ UNCHANGED <<encVars, decVars, mapVars, wavVars, reuseVars, fmVars, alignVars, appVars,
                   srRate, srMode, srStream>>

\* One iteration of findSyncPulse(samples, 0):
\* for (i = startPos; i < searchEnd; i += samplesPerCheck)
StrideFindSyncStep ==
    /\ srPc = "findSyncPulse"
    /\ srIter < MaxScans
    /\ srI < searchEnd(srStream, StreamLen(srStream), srMode, srRate)
    /\ IF syncAt(srStream, srI, srMode, srRate)
       THEN srPc' = "returned" /\ srI' = srI
       ELSE srPc' = srPc /\ srI' = srI + samplesPerCheck(srRate)
    /\ srIter' = srIter + 1
    /\ UNCHANGED <<encVars, decVars, mapVars, wavVars, reuseVars, fmVars, alignVars, appVars,
                   srRate, srMode, srStream>>

\* The loop condition fails: detectMode returns the default mode,
\* findSyncPulse returns -1.
StrideLoopEnd ==
    /\ \/ srPc = "detectMode" /\ srI >= searchSamples(srStream, srRate) - 1000
       \/ /\ srPc = "findSyncPulse"
          /\ srI >= searchEnd(srStream, StreamLen(srStream), srMode, srRate)
    /\ srPc' = "returned"
    /\ UNCHANGED <<encVars, decVars, mapVars, wavVars, reuseVars, fmVars, alignVars, appVars,
                   srRate, srMode, srStream, srI, srIter>>

NextStride == StrideDetectModeStep \/ StrideFindSyncStep \/ StrideLoopEnd

SpecStride == InitStride /\ [][NextStride]_vars

---------------------------------------------------------------------------
(* The App component (SpecApp): one panel, its state and its handlers.  An
   async handler runs up to its await in one step; the continuation after
   the promise settles is a step of its own.                               *)

\* Files handed to a panel are numbered 1 .. MaxFiles.
MaxFiles == 3

\* The App after mounting, viewed at one of its two panels.
InitApp ==
    /\ EncoderIdle /\ pixels = Image(<<0, 0, 0>>, <<0, 0, 0>>) /\ DecoderIdle
    /\ MapIdle /\ WavIdle /\ ReuseIdle /\ FmIdle /\ AlignIdle /\ StrideIdle
    /\ appPanel \in {"encode", "decode"}
    /\ appProcessing = FALSE /\ appResult = 0 /\ appError = 0
    /\ appDragActive = FALSE /\ appRunning = {} /\ appSubmitted = 0

\* handleEncodeFile / handleDecodeFile up to the await, for the next file:
\* processing is set and result and error are cleared; a file of the wrong
\* type throws at once, the catch sets the error and the finally clears
\* processing; otherwise the handler awaits encodeImage / decodeAudio.
handleFileStart(typeOk) ==
    /\ appSubmitted < MaxFiles
    /\ appSubmitted' = appSubmitted + 1
    /\ appResult' = 0
    /\ IF typeOk
       THEN /\ appProcessing' = TRUE
            /\ appError' = 0
            /\ appRunning' = appRunning \cup {appSubmitted'}
       ELSE /\ appProcessing' = FALSE
            /\ appError' = appSubmitted'
            /\ appRunning' = appRunning

\* handleEncodeDrag / handleDecodeDrag: dragenter, dragover, dragleave.
HandleDrag ==
    /\ appPanel \in {"encode", "decode"}
    /\ \E type \in {"dragenter", "dragover", "dragleave"} :
          appDragActive' = (type # "dragleave")
    /\ UNCHANGED <<encVars, decVars, mapVars, wavVars, reuseVars, fmVars, alignVars, strideVars,
                   appPanel, appProcessing, appResult, appError, appRunning, appSubmitted>>

\* handleEncodeDrop / handleDecodeDrop with a file: the drop zone takes drops
\* whatever the state of the panel.
HandleDrop ==
    /\ appPanel \in {"encode", "decode"}
    /\ appDragActive' = FALSE
    /\ \E typeOk \in BOOLEAN : handleFileStart(typeOk)
    /\ UNCHANGED <<encVars, decVars, mapVars, wavVars, reuseVars, fmVars, alignVars, strideVars,
                   appPanel>>

\* handleEncodeFileSelect / handleDecodeFileSelect with a file: the input is
\* disabled while processing is set.
HandleFileSelect ==
    /\ appPanel \in {"encode", "decode"}
    /\ ~appProcessing
    /\ \E typeOk \in BOOLEAN : handleFileStart(typeOk)
    /\ UNCHANGED <<encVars, decVars, mapVars, wavVars, reuseVars, fmVars, alignVars, strideVars,
                   appPanel, appDragActive>>

\* The promise of file f is fulfilled: the result is set, processing cleared.
HandleFileResolved ==
    /\ \E f \in appRunning :
          /\ appRunning' = appRunning \ {f}
          /\ appResult' = f
    /\ appProcessing' = FALSE
    /\ UNCHANGED <<encVars, decVars, mapVars, wavVars, reuseVars, fmVars, alignVars, strideVars,
                   appPanel, appError, appDragActive, appSubmitted>>

\* The promise of file f is rejected: the catch sets the error, the finally
\* clears processing.
HandleFileRejected ==
    /\ \E f \in appRunning :
          /\ appRunning' = appRunning \ {f}
          /\ appError' = f
    /\ appProcessing' = FALSE
    /\ UNCHANGED <<encVars, decVars, mapVars, wavVars, reuseVars, fmVars, alignVars, strideVars,
                   appPanel, appResult, appDragActive, appSubmitted>>

\* resetEncode / resetDecode: the button is rendered with the result.
ResetPanel ==
    /\ appResult # 0
    /\ appResult' = 0 /\ appError' = 0
    /\ UNCHANGED <<encVars, decVars, mapVars, wavVars, reuseVars, fmVars, alignVars, strideVars,
                   appPanel, appProcessing, appDragActive, appRunning, appSubmitted>>

NextApp ==
    \/ HandleDrag
    \/ HandleDrop
    \/ HandleFileSelect
    \/ HandleFileResolved
    \/ HandleFileRejected
    \/ ResetPanel

SpecApp == InitApp /\ [][NextApp]_vars

---------------------------------------------------------------------------
(* Properties of the encoder (SpecEnc).                                    *)

\* The VIS preamble has been emitted and no image line yet.
VisEmitted == encPc = "image" /\ encY = 0

\* C2: addVISCode emits exactly 300 ms at 1900 Hz, 10 ms at 1200 Hz, 30 ms at
\* 1900 Hz, the seven data bits of the mode's VIS code least significant bit
\* first at 30 ms each (1100 Hz for 1, 1300 Hz for 0), one 30 ms parity tone
\* at 1100 or 1300 Hz, 30 ms at 1200 Hz, and nothing else; at 48 kHz that is
\* 29280 samples.
VisToneSequence ==
    VisEmitted =>
        /\ Len(tones) = 12
        /\ tones[1] = [f |-> 1900 * 255, dn |-> 300000, dd |-> 1]
        /\ tones[2] = [f |-> 1200 * 255, dn |-> 10000, dd |-> 1]
        /\ tones[3] = [f |-> 1900 * 255, dn |-> 30000, dd |-> 1]
        /\ \A i \in 0..6 :
              tones[4 + i] =
                  [f |-> IF (SSTV_MODES[encMode].visCode % (2 ^ (i + 1))) >= 2 ^ i
                         THEN 1100 * 255 ELSE 1300 * 255,
                   dn |-> 30000, dd |-> 1]
        /\ tones[11].f \in {1100 * 255, 1300 * 255}
        /\ tones[11].dn = 30000 /\ tones[11].dd = 1
        /\ tones[12] = [f |-> 1200 * 255, dn |-> 30000, dd |-> 1]
        /\ (encSampleRate = 48000 =>
               /\ StreamLen(samples) = 29280
               /\ Len(samples) = 12
               /\ \A k \in 1..12 : samples[k][1] = tones[k].f)

\* The Martin M1 preamble (code 0x2C: bits 0,0,1,1,0,1,0) at 48 kHz.
VisToneSequenceWitness ==
    /\ VisEmitted /\ encMode = "MARTIN1" /\ encSampleRate = 48000
    /\ tones[6].f = 1100 * 255 /\ tones[8].f = 1300 * 255

\* The data bits that are 1 in a VIS code.
OneBits(visCode) == {i \in 0..6 : (visCode % (2 ^ (i + 1))) >= 2 ^ i}

\* C3: the parity tone of addVISCode is the XOR of bits 0..6 of the mode's VIS
\* code (1100 Hz exactly when an odd number of them is 1), so the eight bit
\* tones contain an even number of 1100 Hz tones.
VisParityEven ==
    (encPc \in {"image", "done"}) =>
        /\ (tones[11].f = 1100 * 255) <=> (Cardinality(OneBits(SSTV_MODES[encMode].visCode)) % 2 = 1)
        /\ Cardinality({k \in 4..11 : tones[k].f = 1100 * 255}) % 2 = 0

\* A preamble whose parity bit is 1 (Martin M1 has three 1 bits).
VisParityEvenWitness ==
    /\ encPc = "image" /\ encMode = "MARTIN1"
    /\ tones[11].f = 1100 * 255
    /\ Cardinality({k \in 4..10 : tones[k].f = 1100 * 255}) = 3

\* C8 (as stated): creating an encoder with a mode name outside the table
\* fails at once, so no encoder holds an undefined mode descriptor.
NoEncoderWithoutMode == encPc # "none" => encMode # "undefined"

\* C9 (as stated): a non-positive sample rate is rejected, so no encoder
\* completes a stream at such a rate.
NoStreamAtNonPositiveRate == encPc = "done" => encSampleRate > 0

\* The tones of line l begin after the 12 VIS tones and the lines before it.
LineBase(l) == 12 + l * (3 * SSTV_MODES[encMode].width + 4)

\* C10: every line of an RGB mode is emitted as sync at 1200 Hz for the sync
\* pulse, porch at 1500 Hz for the sync porch, width green tones, a 1200 Hz
\* separator, width blue tones, a 1200 Hz separator, width red tones, each
\* pixel tone at 1500 + (v / 255) * 800 Hz, and nothing between the red scan
\* and the next line's sync.
RgbLineOrder ==
    (encPc \in {"image", "done"} /\ SSTV_MODES[encMode].colorFormat = "RGB") =>
        LET w == SSTV_MODES[encMode].width
            md == SSTV_MODES[encMode]
            px(l, x) == pixels[l * w + (x - 1)]
            pixelTone(v) == [f |-> 1500 * 255 + v * 800, dn |-> md.scanTime, dd |-> w]
            sep == [f |-> 1200 * 255, dn |-> md.separatorPulse, dd |-> 1]
        IN  /\ Len(tones) = LineBase(encY)
            /\ \A l \in 0..(encY - 1) :
                  /\ tones[LineBase(l) + 1] = [f |-> 1200 * 255, dn |-> md.syncPulse, dd |-> 1]
                  /\ tones[LineBase(l) + 2] = [f |-> 1500 * 255, dn |-> md.syncPorch, dd |-> 1]
                  /\ \A x \in 1..w :
                        /\ tones[LineBase(l) + 2 + x] = pixelTone(px(l, x)[2])
                        /\ tones[LineBase(l) + w + 3 + x] = pixelTone(px(l, x)[3])
                        /\ tones[LineBase(l) + 2 * w + 4 + x] = pixelTone(px(l, x)[1])
                  /\ tones[LineBase(l) + w + 3] = sep
                  /\ tones[LineBase(l) + 2 * w + 4] = sep

\* A whole Scottie S1 transmission of a raster whose first pixel has three
\* different channel values.
RgbLineOrderWitness ==
    /\ encPc = "done" /\ encMode = "SCOTTIE1" /\ encSampleRate = 48000
    /\ pixels[0] = <<51, 102, 204>>
    /\ tones[15].f = 1500 * 255 + 102 * 800

---------------------------------------------------------------------------
(* Properties of mode detection (SpecVIS).                                 *)

\* detectMode has returned.
ModeReturned == decPc \in {"detected", "decodeImage", "errorMode"}

\* C1: detectMode on the VIS preamble addVISCode produces for a supported mode
\* returns that mode from a matching position: no earlier position of the
\* scan assembles the code of another mode.
PreambleDetected ==
    \A m \in ModeKeys :
        (ModeReturned /\ input = addTones(<< >>, visTones(SSTV_MODES[m].visCode), sampleRate))
            => (visHit /\ mode = m)

\* The Scottie S1 preamble at 44.1 kHz, matched after a scan that stepped
\* through leader, break and start tone.
PreambleDetectedWitness ==
    /\ decPc = "detected" /\ visHit /\ mode = "SCOTTIE1" /\ sampleRate = 44100
    /\ input = addTones(<< >>, visTones(60), 44100)
    /\ scanI > 0

\* C4: detectMode always returns a mode of the table: Robot 36 when no
\* scanned position matched, and decodeAudio then goes on to decodeImage
\* rather than throw its mode-detection error.
FallbackRobot36 ==
    /\ ModeReturned => (mode \in {"ROBOT36", "MARTIN1", "SCOTTIE1"}
                        /\ (~visHit => mode = "ROBOT36"))
    /\ decPc # "errorMode"

\* A bare leader tone: nothing matches, Robot 36 is assumed, decoding goes on.
FallbackRobot36Witness ==
    /\ decPc = "decodeImage" /\ ~visHit /\ mode = "ROBOT36"
    /\ Len(input) = 1 /\ scanI > 0

---------------------------------------------------------------------------
(* Properties of decodeImage (SpecDec).                                    *)

\* The raster as decodeImage initialises it.
BlackRaster == \A i \in DOMAIN imageData : imageData[i] = <<0, 0, 0, 255>>

\* C5: a stream in which no position passes the sync test makes decodeImage
\* throw after the searches from all four start positions; no line has been
\* decoded, no pixel written, and no raster is delivered.
NoSyncThrows ==
    /\ decPc = "errorSync" =>
          (searchK = 4 /\ position = -1 /\ linesDecoded = 0 /\ written = {} /\ BlackRaster)
    /\ (input = << >> \/ (Len(input) = 1 /\ input[1][1] = 1900 * 255)) =>
          decPc \in {"decodeImage", "initSync", "errorSync"}

\* 100 ms of 1900 Hz: the search from sample 0 has stepped through it.
NoSyncThrowsWitness ==
    /\ decPc = "errorSync" /\ Len(input) = 1 /\ scanI > 0 /\ linesDecoded = 0

\* A line's sync search has ended without a sync in either window.
SyncLostStep ==
    /\ decPc \in {"nextSync", "expandedSync"}
    /\ decPc' = "line"
    /\ lastSync' \in {"kept", "expected"}

LoopRank(pc) ==
    CASE pc = "line" -> 0
      [] pc \in {"green", "luma"} -> 1
      [] pc \in {"blue", "chroma"} -> 2
      [] pc = "red" -> 3
      [] pc = "nextSync" -> 4
      [] pc = "expandedSync" -> 5
      [] OTHER -> 6

\* A step after the initial sync advances the run: a later line, a later
\* point of the same line, or a later sample of a search inside the stream.
LoopAdvances ==
    \/ y' = y + 1 /\ y < SSTV_MODES[mode].lines /\ decPc' = "line"
    \/ y' = y /\ LoopRank(decPc') > LoopRank(decPc)
    \/ y' = y /\ decPc' = decPc /\ scanI' > scanI /\ scanI < StreamLen(input)

UnwrittenStayBlack ==
    decPc = "done" =>
        \A i \in DOMAIN imageData : i \notin written => imageData[i] = <<0, 0, 0, 255>>

---------------------------------------------------------------------------
(* Properties of the Robot 36 encoder path (SpecEnc).                      *)

\* The tones of Robot 36 line l begin after the 12 VIS tones and the lines
\* before it: sync, porch, w luminance tones, separator, porch, chroma tones.
YuvLineBase(l) ==
    12 + l * (SSTV_MODES[encMode].width + 4 + (SSTV_MODES[encMode].width + 1) \div 2)

\* The tone frequency (1/255 Hz) of a chroma value c2m = 2000000 * c:
\* 1500 + ((c + 156) / 312) * 800 Hz, clamped to 1500..2300 Hz.
ChromaToneFreq(c2m) ==
    LET off == (((c2m + 312000000) \div 1000) * 17) \div 52
    IN  1500 * 255 + (IF off < 0 THEN 0 ELSE IF off > 255 * 800 THEN 255 * 800 ELSE off)

\* Cb = 0.492 (B - Y) of the sum of two pixels, as 2000000 * Cb of their mean.
CbOfPair(p, q) ==
    492 * (1000 * (p[3] + q[3])
           - (299 * (p[1] + q[1]) + 587 * (p[2] + q[2]) + 114 * (p[3] + q[3])))

\* Cr = 0.877 (R - Y) of the sum of two pixels, as 2000000 * Cr of their mean.
CrOfPair(p, q) ==
    877 * (1000 * (p[1] + q[1])
           - (299 * (p[1] + q[1]) + 587 * (p[2] + q[2]) + 114 * (p[3] + q[3])))

---------------------------------------------------------------------------
(* Properties of the Robot 36 decoder path (SpecDec).                      *)

\* The entries of a scratch buffer that differ between two of its values.
ChangedEntries(before, after) == {i \in DOMAIN before : after[i] # before[i]}

\* C12: the chroma scan of line y is stored by the parity of y alone, Cr (V)
\* on even lines and Cb (U) on odd lines, whatever separator the stream
\* carries, and only line y of that one scratch buffer is written; no other
\* step of the line loop writes a scratch buffer.
ChromaByParity ==
    [][/\ decPc = "chroma" =>
             /\ y % 2 = 0 =>
                   (chromaU' = chromaU
                    /\ \A i \in ChangedEntries(chromaV, chromaV') :
                          i \div SSTV_MODES[mode].width = y)
             /\ y % 2 = 1 =>
                   (chromaV' = chromaV
                    /\ \A i \in ChangedEntries(chromaU, chromaU') :
                          i \div SSTV_MODES[mode].width = y)
       /\ decPc \notin {"chroma", "decodeImage", "done"} =>
             (chromaU' = chromaU /\ chromaV' = chromaV)
      ]_vars

\* Line 0 of a stream whose separator before the chroma scan is 2300 Hz (the
\* cue for Cr is 1500 Hz in the decoder's reading): the scan went to Cr.
ChromaByParityWitness ==
    /\ decPc = "nextSync" /\ y = 0 /\ mode = "ROBOT36"
    /\ Len(input) >= 12 + SSTV_MODES[mode].width + 3
    /\ input[12 + SSTV_MODES[mode].width + 3][1] = 2300 * 255
    /\ chromaV[0] # 128
    /\ \A i \in DOMAIN chromaU : chromaU[i] = 128

\* C13: the conversion works on line pairs (0,1), (2,3), ...: each pixel of a
\* pair takes Y from its own R channel, Cr from the even line's entry of
\* chromaV and Cb from the odd line's entry of chromaU at its column, and
\* entries no chroma scan wrote (lines not reached, and the buffer of the
\* other parity) still hold the neutral 128.
PairwiseReassembly ==
    [][(decPc = "line" /\ decPc' = "done" /\ SSTV_MODES[mode].colorFormat = "YUV") =>
          LET w == SSTV_MODES[mode].width
              lines == SSTV_MODES[mode].lines
              even(i) == (i \div w) - ((i \div w) % 2)
              odd(i) == IF even(i) + 1 < lines THEN even(i) + 1 ELSE lines - 1
          IN  \A i \in DOMAIN imageData :
                 /\ imageData'[i][4] = imageData[i][4]
                 /\ <<imageData'[i][1], imageData'[i][2], imageData'[i][3]>>
                       = yuvToRgb(imageData[i][1], chromaU[odd(i) * w + (i % w)],
                                  chromaV[even(i) * w + (i % w)])
                 /\ ((i \div w) >= linesDecoded \/ (i \div w) % 2 = 0) => chromaU[i] = 128
                 /\ ((i \div w) >= linesDecoded \/ (i \div w) % 2 = 1) => chromaV[i] = 128
      ]_vars

\* A whole Robot 36 transmission: line 1 is delivered in colour from the Cr
\* of line 0 and its own Cb.
PairwiseReassemblyWitness ==
    /\ decPc = "done" /\ mode = "ROBOT36" /\ linesDecoded = SSTV_MODES[mode].lines
    /\ chromaV[0] # 128 /\ chromaU[SSTV_MODES[mode].width] # 128
    /\ chromaV[SSTV_MODES[mode].width] = 128
    /\ imageData[SSTV_MODES[mode].width][1] # imageData[SSTV_MODES[mode].width][2]

\* C14: once decodeImage has allocated the raster, every pixel of it, in every
\* state up to and including delivery, for every mode and every input
\* (whole, truncated, sync lost), has alpha 255 and R, G, B integers in 0..255.
RasterWellFormed ==
    decPc \notin {"decodeImage", "errorSync"} =>
        \A i \in DOMAIN imageData :
            /\ imageData[i][4] = 255
            /\ \A c \in 1..3 : imageData[i][c] \in 0..255

\* A raster delivered from a truncated YUV transmission with one channel at
\* the upper clamp 255 and one at the lower clamp 0.
RasterWellFormedWitness ==
    /\ decPc = "done" /\ SSTV_MODES[mode].colorFormat = "YUV"
    /\ linesDecoded < SSTV_MODES[mode].lines
    /\ \E i, j \in DOMAIN imageData : \E c, d \in 1..3 :
          imageData[i][c] = 255 /\ imageData[j][d] = 0 /\ imageData[i][4] = 255

\* C15: for a YUV mode decodeImage allocates both scratch buffers, one entry
\* per pixel, all 128; until the first line is entered they are all 128, and
\* in every later state every entry of both lies in 16..240 (so none is 0).
ChromaInRange ==
    (decPc # "decodeImage" /\ SSTV_MODES[mode].colorFormat = "YUV") =>
        /\ DOMAIN chromaU = DOMAIN imageData /\ DOMAIN chromaV = DOMAIN imageData
        /\ \A i \in DOMAIN chromaU :
              /\ chromaU[i] \in 16..240 /\ chromaV[i] \in 16..240
              /\ decPc \in {"initSync", "errorSync"} => (chromaU[i] = 128 /\ chromaV[i] = 128)

\* Both buffers hold decoded values, one of them at the upper limit 240 of
\* the range, and an entry no scan wrote is still 128.
ChromaInRangeWitness ==
    /\ decPc = "done" /\ SSTV_MODES[mode].colorFormat = "YUV"
    /\ \E i, j, k \in DOMAIN chromaU :
          chromaU[i] = 240 /\ chromaV[j] # 128 /\ chromaV[k] = 128

\* The number of samples of the k-th tone of the stream.
ToneSamples(k) == samples[k][3] - samples[k][2]

\* The stream holds the tones emitted so far, one run per tone, in order and
\* back to back, and the run of a tone of duration dn/dd microseconds has
\* Math.floor(duration * sampleRate) samples, which is no more than the
\* nominal duration * sampleRate and at most one less.
TonesAppended ==
    /\ Len(samples) = Len(tones)
    /\ \A k \in 1..Len(tones) :
          /\ samples[k][1] = tones[k].f
          /\ samples[k][2] = (IF k = 1 THEN 0 ELSE samples[k - 1][3])
          /\ ToneSamples(k) = floorMul(tones[k].dn, tones[k].dd, encSampleRate)
          /\ ToneSamples(k) * tones[k].dd * 10000 <= tones[k].dn * (encSampleRate \div 100)
          /\ tones[k].dn * (encSampleRate \div 100) <= (ToneSamples(k) + 1) * tones[k].dd * 10000

\* C16: at a positive sample rate every addTone appends floor(d * Fs) samples
\* and leaves the samples already in the stream as they are: each tone is at
\* most one sample shorter than d * Fs and never longer.
ToneLengthFloor ==
    [][encSampleRate' > 0 =>
          /\ TonesAppended'
          /\ encPc = "image" =>
                (Len(samples') >= Len(samples) /\ SubSeq(samples', 1, Len(samples)) = samples)
      ]_vars

\* A finished Robot 36 stream at 48 kHz: the 300 ms leader has its 14400
\* samples, and the 9 ms sync pulse, whose product with the rate falls just
\* below 432 in double precision, has 431.
ToneLengthFloorWitness ==
    /\ encPc = "done" /\ encSampleRate = 48000 /\ encModeKey = "ROBOT36"
    /\ Len(samples) = Len(tones) /\ Len(tones) > 12
    /\ tones[1].dn = 300000 /\ ToneSamples(1) = 14400
    /\ tones[13].dn = 9000 /\ tones[13].dd = 1 /\ ToneSamples(13) = 431

\* C17: this.phase is 0 whenever a stream begins, that is, at every step in
\* which generateAudio starts on a new encoder or on one that has delivered a
\* stream before.
StreamStartsAtZeroPhase ==
    [][(encPc \in {"ready", "done"} /\ encPc' \in {"image", "error"}) => phase = 0]_vars

\* C18: for every channel value v in 0..255 the tone of 1500 + (v / 255) * 800
\* Hz is estimated at the nearest whole Hz, and round(255 * (f - 1500) / 800)
\* clamped to 0..255 gives v back; an estimate of 1500 Hz gives 0, one of
\* 2300 Hz gives 255, estimates below 1500 Hz give 0 and above 2300 Hz 255.
ValueRoundTrip ==
    mapPc = "decoded" =>
        /\ \A v \in 0..255 :
              mapTone = 382500 + 800 * v =>
                  (Abs(255 * mapFreq - mapTone) <= 127 /\ mapValue = v)
        /\ mapFreq <= 1500 => mapValue = 0
        /\ mapFreq >= 2300 => mapValue = 255

\* Channel value 128: the tone of 1901.57 Hz is estimated at 1902 Hz, which
\* maps to 128.14, rounded to 128.
ValueRoundTripWitness ==
    mapPc = "decoded" /\ mapTone = 382500 + 800 * 128 /\ mapFreq = 1902 /\ mapValue = 128

\* The sum of channel c over the raster.
RECURSIVE ChannelSumTo(_, _)
ChannelSumTo(c, n) == IF n = 0 THEN 0 ELSE imageData[n - 1][c] + ChannelSumTo(c, n - 1)
ChannelSum(c) == ChannelSumTo(c, W * H)

Uint16At(o) == wav[o + 1] + 256 * wav[o + 2]
Uint32At(o) == wav[o + 1] + 256 * wav[o + 2] + 65536 * wav[o + 3] + 16777216 * wav[o + 4]
Int16At(o) == IF Uint16At(o) >= 32768 THEN Uint16At(o) - 65536 ELSE Uint16At(o)

\* C20: for n samples createWAV returns 44 + 2n bytes: 'RIFF', 36 + 2n,
\* 'WAVE', 'fmt ', 16, PCM 1, 1 channel, the sample rate, the byte rate
\* Fs * 2, block align 2, 16 bits per sample, 'data', 2n, and then the samples
\* in order, each clamped to [-1, 1], scaled by 32767 and stored as a
\* little-endian signed 16 bit number (the fraction dropped).
WavLayout ==
    wav # << >> =>
        LET n == Len(wavSamples)
        IN  /\ Len(wav) = 44 + 2 * n
            /\ \A k \in 1..Len(wav) : wav[k] \in 0..255
            /\ SubSeq(wav, 1, 4) = << 82, 73, 70, 70 >>
            /\ Uint32At(4) = 36 + 2 * n
            /\ SubSeq(wav, 9, 16) = << 87, 65, 86, 69, 102, 109, 116, 32 >>
            /\ Uint32At(16) = 16
            /\ Uint16At(20) = 1
            /\ Uint16At(22) = 1
            /\ Uint32At(24) = encSampleRate
            /\ Uint32At(28) = encSampleRate * 2
            /\ Uint16At(32) = 2
            /\ Uint16At(34) = 16
            /\ SubSeq(wav, 37, 40) = << 100, 97, 116, 97 >>
            /\ Uint32At(40) = 2 * n
            /\ \A i \in 1..n :
                  LET c == IF wavSamples[i] > 1000 THEN 1000
                           ELSE IF wavSamples[i] < -1000 THEN -1000 ELSE wavSamples[i]
                      v == Int16At(44 + 2 * (i - 1))
                  IN  /\ c >= 0 => (v * 1000 <= c * 32767 /\ c * 32767 < (v + 1) * 1000)
                      /\ c < 0 => ((v - 1) * 1000 < c * 32767 /\ c * 32767 <= v * 1000)

\* The samples 1.5 and -0.5: 48 bytes, 1.5 stored as 32767 (FF 7F) and -0.5 as
\* -16383 (01 C0).
WavLayoutWitness ==
    /\ wavSamples = << 1500, -500 >> /\ encSampleRate = 48000
    /\ Len(wav) = 48
    /\ SubSeq(wav, 45, 48) = << 255, 127, 1, 192 >>

LineSamples == lineStart(mode, SyncLostImage, 1, sampleRate)
                   - lineStart(mode, SyncLostImage, 0, sampleRate)

\* C22: the search for the next sync pulse starts at the cursor and examines
\* no position further than about twice the expected line duration beyond it
\* (at most 5/2 of it), and on a miss the expanded search starts about half
\* the expected line duration (between 2/5 and 3/5 of it) beyond the cursor.
SearchTwoLinesHalfLine ==
    [][/\ decPc = "nextSync" =>
             (scanI >= position /\ 2 * (scanI - position) <= 5 * LineSamples)
       /\ (decPc = "nextSync" /\ decPc' = "expandedSync") =>
             /\ 5 * (scanI' - position) >= 2 * LineSamples
             /\ 5 * (scanI' - position) <= 3 * LineSamples
      ]_vars

\* The stream begins as the encoder begins it: the twelve tones of the VIS
\* code of the mode, then the whole sync pulse of line 0.
EncoderStream ==
    /\ Len(input) >= 13
    /\ SubSeq(input, 1, 12) = addTones(<< >>, addVISCode(mode), sampleRate)
    /\ input[13][1] = 1200 * 255
    /\ input[13][3] - input[13][2] = floorMul(SSTV_MODES[mode].syncPulse, 1, sampleRate)

\* C23: the initial search tries the offsets 0.61 s, 0.5 s, 0.8 s and 0 in
\* that order and takes the first position findSyncPulse accepts; on a stream
\* that begins as the encoder begins it, that position is not inside the VIS
\* preamble and is within one 0.2 ms step of the start of line 0's sync pulse.
InitialSyncAtLineZero ==
    [][/\ decPc = "decodeImage" => (searchK' = 1 /\ scanI' = (61 * sampleRate) \div 100)
       /\ (decPc = "initSync" /\ searchK' # searchK) =>
             /\ searchK' = searchK + 1
             /\ scanI' = << (61 * sampleRate) \div 100, sampleRate \div 2,
                            (8 * sampleRate) \div 10, 0 >>[searchK']
             /\ decPc' = "initSync" /\ position' = -1
       /\ (decPc = "initSync" /\ decPc' = "line") =>
             /\ position' = scanI
             /\ EncoderStream =>
                   /\ position' >= input[13][2]
                   /\ position' - input[13][2] <= (2 * sampleRate) \div 10000
                   /\ searchK = 1
      ]_vars

\* A whole transmission: the first offset, 0.61 s, is accepted, and it is the
\* first sample of line 0's sync pulse.
InitialSyncAtLineZeroWitness ==
    /\ decPc = "line" /\ y = 0 /\ lastSync = "initial"
    /\ EncoderStream /\ Len(input) > 20
    /\ searchK = 1 /\ position = 29280 /\ input[13][2] = 29280

ChromaComponentsAgree ==
    [][(/\ decPc = "chroma" /\ mode = "ROBOT36"
        /\ input = generateAudio("ROBOT36", SyncLostImage, sampleRate)) =>
          LET w == SSTV_MODES[mode].width
              p == SyncLostImage[y * w]
              q == SyncLostImage[y * w + (IF w > 1 THEN 1 ELSE 0)]
              sent == input[12 + y * (w + 4 + (w + 1) \div 2) + w + 5][1]
          IN  /\ sent = ChromaToneFreq(CbOfPair(p, q)) => chromaV' = chromaV
              /\ sent = ChromaToneFreq(CrOfPair(p, q)) => chromaU' = chromaU
      ]_vars

\* C26: a scan stays sample-aligned: when both sides are through with a scan,
\* the samples the encoder pushed for it are as many as the decoder cursor
\* advanced over it.
ScanSampleAligned == alPc = "done" => alEmitted = alAdvance

\* Whole transmissions of the encoder in mode m at 48 kHz: the rasters that
\* are decoded pixel by pixel, and a grey raster of the program's width.
RoundTripStreams ==
    [m \in ModeKeys |->
        {generateAudio(m, d, 48000) : d \in DecImages}
            \cup {wideAudio(m, 128, fullWidth, 48000)}]

\* The sync pulses of the encoder's lines in the stream, in order: the 1200 Hz
\* tones of the length of mode.syncPulse after the VIS code.
EncoderSyncs ==
    SelectSeq(SubSeq(input, 13, Len(input)),
              LAMBDA seg : /\ seg[1] = Hz(FREQ_SYNC)
                           /\ seg[3] - seg[2]
                                = floorMul(SSTV_MODES[mode].syncPulse, 1, sampleRate))

\* C27: in a round trip, every iteration y of the line loop starts with the
\* cursor at the sync pulse of the encoder's line y, less than the length of
\* the pulse before its first sample and before its last: no line of the
\* encoder is skipped and none is decoded twice.
LineByLine ==
    (/\ decPc = "line" /\ y < SSTV_MODES[mode].lines
     /\ sampleRate = 48000 /\ input \in RoundTripStreams[mode]) =>
        /\ Len(EncoderSyncs) = SSTV_MODES[mode].lines
        /\ position > 2 * EncoderSyncs[y + 1][2] - EncoderSyncs[y + 1][3]
        /\ position < EncoderSyncs[y + 1][3]

\* C28: once the initial sync is found, no step of decodeImage moves the
\* cursor backwards and every iteration of the line loop begins by moving it
\* forwards, so it is larger at the start of an iteration than at the start
\* of the one before; an iteration begins only for a line below mode.lines
\* with the cursor inside the stream, otherwise the loop is left; at most
\* mode.lines iterations run; and every step advances the run, so that
\* decodeImage terminates.
CursorForward ==
    [][(lastSync # "none" /\ decPc # "done") =>
          /\ position' >= position
          /\ (decPc = "line" /\ decPc' # "done") =>
                /\ y < SSTV_MODES[mode].lines /\ position < StreamLen(input)
                /\ position' > position
                /\ linesDecoded' = linesDecoded + 1
          /\ (decPc = "line" /\ (y >= SSTV_MODES[mode].lines \/ position >= StreamLen(input))) =>
                decPc' = "done"
          /\ linesDecoded' <= SSTV_MODES[mode].lines
          /\ LoopAdvances
      ]_vars

\* A stream cut short: the loop was left after two of the three iterations
\* because the cursor had reached the end of the samples.
CursorForwardWitness ==
    /\ decPc = "done" /\ lastSync # "none"
    /\ linesDecoded = 2 /\ y = 2 /\ y < SSTV_MODES[mode].lines
    /\ position >= StreamLen(input)

\* C29: at every positive sample rate the strides of detectMode and
\* findSyncPulse are at least 1, and an iteration that does not return leaves
\* the scan index larger than it found it.
StridesAdvance ==
    [][/\ srPc = "detectMode" => visStep(srRate) >= 1
       /\ srPc = "findSyncPulse" => samplesPerCheck(srRate) >= 1
       /\ (srPc \in {"detectMode", "findSyncPulse"} /\ srPc' = srPc) => srI' > srI
      ]_vars

\* C30: at most one operation of a panel is in flight, processing is set
\* exactly while one is, and what is shown once nothing is in flight is a
\* result or an error of the file submitted last, never both.
OneInFlight ==
    appPanel \in {"encode", "decode"} =>
        /\ Cardinality(appRunning) <= 1
        /\ appProcessing <=> appRunning # {}
        /\ appRunning = {} =>
              /\ appResult \in {0, appSubmitted}
              /\ appError \in {0, appSubmitted}
              /\ appResult = 0 \/ appError = 0

====
